---- MODULE Spec2Model ----
(***************************************************************************)
(* The materialization pipeline of realmkit-cli: ProjectCreator of         *)
(* src/lib/project-creator.ts, the create command that calls it            *)
(* (src/commands/create.ts), and the extraction of RealmExtractor          *)
(* (src/lib/realm-extractor.ts): analyzeProject with its framework         *)
(* detection and structure traversal, the template transformations, the    *)
(* variables identified in them and saveExtractionResults.                 *)
(*                                                                         *)
(* Text (file contents, paths, feature ids, variable values) is a sequence *)
(* of lexemes.  A lexeme is a single character where some pattern of the   *)
(* code looks at characters ("{", "}", "$", "&", "/", "*", ",", " ") and a *)
(* whole word where no pattern looks inside it ("auth", "acme", "A").      *)
(* "@feature" is the keyword of the feature-gate annotation.               *)
(***************************************************************************)
EXTENDS Integers, Sequences, FiniteSets, TLC

\* ------------------------------------------------------------------ bounds

\* Sequential create() calls against the same output path.
MaxRuns == 2

\* Segments a template content of the substitution specification is built of.
MaxSegs == 3

\* Directories below one another after which the file system refuses a path.
MaxNesting == 2

\* Entries of the dependencies and of the devDependencies of a package.json.
MaxDeps == 2

\* Directories one inside the other in a project the extractor analyses.
MaxDepth == 5

\* Lines of an .env.example the extractor turns into a template.
MaxLines == 2

\* ------------------------------------------------------------------- text

Space == " "
Comma == ","

\* \s of the marker pattern.
IsSpace(a) == a = Space

\* [\w,\s] of the marker pattern: a word lexeme, a comma or white space.
IsWordCommaSpace(a) ==
    a \notin {"{", "}", "$", "&", "/", "*", "=", "@feature", "http://localhost:3000"}

\* String.prototype.includes
Includes(s, sub) ==
    \E i \in 1..(Len(s) - Len(sub) + 1) : SubSeq(s, i, i + Len(sub) - 1) = sub

StartsWith(s, pre) == Len(pre) <= Len(s) /\ SubSeq(s, 1, Len(pre)) = pre

MatchesAt(s, i, pat) ==
    i + Len(pat) - 1 <= Len(s) /\ SubSeq(s, i, i + Len(pat) - 1) = pat

\* The replacement string of String.prototype.replace, expanded for one match:
\* "$$" inserts "$" and "$&" inserts the matched text; any other "$" stands
\* for itself (the patterns have no capture group, and the lexemes hold no
\* backquote and no quote).
RECURSIVE GetSubstitution(_, _, _)
GetSubstitution(repl, i, matched) ==
    IF i > Len(repl) THEN <<>>
    ELSE IF repl[i] = "$" /\ i < Len(repl) /\ repl[i + 1] = "$"
         THEN <<"$">> \o GetSubstitution(repl, i + 2, matched)
    ELSE IF repl[i] = "$" /\ i < Len(repl) /\ repl[i + 1] = "&"
         THEN matched \o GetSubstitution(repl, i + 2, matched)
    ELSE <<repl[i]>> \o GetSubstitution(repl, i + 1, matched)

\* processed.replace(new RegExp(pat, 'g'), repl) for a literal pattern:
\* the matches are found left to right in the input, never in inserted text.
RECURSIVE ReplaceFrom(_, _, _, _)
ReplaceFrom(s, i, pat, repl) ==
    IF i > Len(s) THEN <<>>
    ELSE IF MatchesAt(s, i, pat)
         THEN GetSubstitution(repl, 1, pat) \o ReplaceFrom(s, i + Len(pat), pat, repl)
    ELSE <<s[i]>> \o ReplaceFrom(s, i + 1, pat, repl)

ReplaceAll(s, pat, repl) == ReplaceFrom(s, 1, pat, repl)

\* The pattern \{\{NAME\}\} of a variable name.
Token(name) == <<"{", "{", name, "}", "}">>

\* String(value): a string is itself, a boolean is "true" or "false".
StringOf(value) ==
    IF value.t = "string" THEN value.v
    ELSE IF value.v THEN <<"true">> ELSE <<"false">>

Str(s) == [t |-> "string", v |-> s]
Bool(b) == [t |-> "boolean", v |-> b]

\* No defaultValue key in the manifest entry (undefined).
Undefined == [t |-> "undefined", v |-> <<>>]

\* `name in variables` for the object config.variables, kept as the sequence of
\* its entries in insertion order.
HasKey(variables, name) == \E i \in 1..Len(variables) : variables[i].name = name

\* Array.prototype.includes
ArrIncludes(arr, x) == \E i \in 1..Len(arr) : arr[i] = x

\* ------------------------------------------------ applyVariableSubstitution

\* Lines 218-221: one global replace per entry of config.variables, in the
\* order of Object.entries, each on the result of the one before.
RECURSIVE substituteBindings(_, _, _)
substituteBindings(processed, variables, i) ==
    IF i > Len(variables) THEN processed
    ELSE substituteBindings(
             ReplaceAll(processed, Token(variables[i].name), StringOf(variables[i].value)),
             variables, i + 1)

\* Lines 224-229: then one global replace per manifest variable that has no key
\* in config.variables and whose defaultValue is not undefined.
RECURSIVE substituteDefaults(_, _, _, _)
substituteDefaults(processed, declared, variables, i) ==
    IF i > Len(declared) THEN processed
    ELSE IF ~HasKey(variables, declared[i].name) /\ declared[i].defaultValue.t # "undefined"
         THEN substituteDefaults(
                  ReplaceAll(processed, Token(declared[i].name), StringOf(declared[i].defaultValue)),
                  declared, variables, i + 1)
    ELSE substituteDefaults(processed, declared, variables, i + 1)

applyVariableSubstitution(content, variables, declared) ==
    substituteDefaults(substituteBindings(content, variables, 1), declared, variables, 1)

\* --------------------------------------------------------- shouldIncludeFile

AUTH == <<"auth">>
PAYMENTS == <<"payments">>
EMAIL == <<"email">>
ADMIN == <<"admin">>

\* Lines 239-244, in the order of Object.keys.
featureDirectories ==
    << [id |-> AUTH, dirs |-> {<<"auth", "/">>, <<"services", "/", "auth", "/">>}],
       [id |-> PAYMENTS, dirs |-> {<<"billing", "/">>, <<"services", "/", "billing", "/">>,
                                   <<"stripe", "/">>}],
       [id |-> EMAIL, dirs |-> {<<"email", "/">>, <<"services", "/", "email", "/">>}],
       [id |-> ADMIN, dirs |-> {<<"admin", "/">>, <<"services", "/", "admin", "/">>}] >>

\* Lines 246-254: TRUE when no disabled feature has a directory string that
\* occurs anywhere in the relative path.
passesDirectoryCheck(relativePath, enabledFeatures) ==
    \A k \in 1..Len(featureDirectories) :
        \/ ArrIncludes(enabledFeatures, featureDirectories[k].id)
        \/ ~\E dir \in featureDirectories[k].dirs : Includes(relativePath, dir)

\* The first index at or after i that holds no white space.
RECURSIVE SkipSpaces(_, _)
SkipSpaces(c, i) ==
    IF i <= Len(c) /\ IsSpace(c[i]) THEN SkipSpaces(c, i + 1) ELSE i

\* The last index of the run of [\w,\s] lexemes that starts at k (k - 1: none).
RECURSIVE RunEnd(_, _)
RunEnd(c, k) ==
    IF k <= Len(c) /\ IsWordCommaSpace(c[k]) THEN RunEnd(c, k + 1) ELSE k - 1

\* Line 257: featureFlagPattern matches at index i.  "*" is not in [\w,\s],
\* so the group's run is maximal and "*/" follows it at once; \s+ needs the
\* run to start with white space and the group needs one more lexeme.
FlagMatchesAt(c, i) ==
    /\ MatchesAt(c, i, <<"/", "*">>)
    /\ LET j == SkipSpaces(c, i + 2)
       IN  /\ j <= Len(c)
           /\ c[j] = "@feature"
           /\ LET e == RunEnd(c, j + 1)
              IN  /\ e >= j + 2
                  /\ IsSpace(c[j + 1])
                  /\ MatchesAt(c, e + 1, <<"*", "/">>)

\* match[1]: \s+ is greedy and gives back one lexeme only when the whole run
\* is white space.
FlagGroup(c, i) ==
    LET j == SkipSpaces(c, i + 2)
        e == RunEnd(c, j + 1)
        g == SkipSpaces(c, j + 1)
    IN  SubSeq(c, IF g > e THEN e ELSE g, e)

\* String.prototype.split(',')
RECURSIVE Split(_, _)
Split(s, sep) ==
    IF \E i \in 1..Len(s) : s[i] = sep
    THEN LET i == CHOOSE x \in 1..Len(s) : s[x] = sep /\ \A y \in 1..(x - 1) : s[y] # sep
         IN  <<SubSeq(s, 1, i - 1)>> \o Split(SubSeq(s, i + 1, Len(s)), sep)
    ELSE <<s>>

\* String.prototype.trim
RECURSIVE Trim(_)
Trim(s) ==
    IF s # <<>> /\ IsSpace(s[1]) THEN Trim(Tail(s))
    ELSE IF s # <<>> /\ IsSpace(s[Len(s)]) THEN Trim(SubSeq(s, 1, Len(s) - 1))
    ELSE s

\* content.match(featureFlagPattern): the leftmost match, 0 when there is none.
flagMatch(content) ==
    IF \E i \in 1..Len(content) : FlagMatchesAt(content, i)
    THEN CHOOSE i \in 1..Len(content) :
             FlagMatchesAt(content, i) /\ \A y \in 1..(i - 1) : ~FlagMatchesAt(content, y)
    ELSE 0

\* Line 261: match[1].split(',').map(f => f.trim())
requiredFeatures(content) ==
    LET parts == Split(FlagGroup(content, flagMatch(content)), Comma)
    IN  [n \in 1..Len(parts) |-> Trim(parts[n])]

\* Lines 256-268: TRUE when the content has no marker or every id of its first
\* marker is enabled.
passesFlagCheck(content, enabledFeatures) ==
    flagMatch(content) = 0
    \/ \A n \in 1..Len(requiredFeatures(content)) :
           ArrIncludes(enabledFeatures, requiredFeatures(content)[n])

\* shouldIncludeFile without the directory check of lines 246-254.
shouldIncludeFileFlagOnly(relativePath, content, enabledFeatures) ==
    passesFlagCheck(content, enabledFeatures)

\* Lines 234-271.
shouldIncludeFile(relativePath, content, enabledFeatures) ==
    /\ passesDirectoryCheck(relativePath, enabledFeatures)
    /\ passesFlagCheck(content, enabledFeatures)

\* ------------------------------------------------------------ realm, config

\* The directories a file path lies in, outermost first: its prefixes that end
\* before a "/".
DirsOf(path) == {SubSeq(path, 1, i - 1) : i \in {x \in 1..Len(path) : path[x] = "/"}}

\* The part of `path` below directory `dir` (path.relative(dir, path)).
Relative(dir, path) == SubSeq(path, Len(dir) + 2, Len(path))

Under(dir, path) == StartsWith(path, dir \o <<"/">>)

\* A /* @feature ids */ annotation naming the ids, comma separated.
RECURSIVE JoinIds(_)
JoinIds(ids) ==
    IF ids = <<>> THEN <<>>
    ELSE IF Len(ids) = 1 THEN ids[1]
    ELSE ids[1] \o <<Comma>> \o JoinIds(Tail(ids))

Marker(ids) == <<"/", "*", Space, "@feature", Space>> \o JoinIds(ids) \o <<Space, "*", "/">>

File(path, content) == [path |-> path, content |-> content]

\* A realm directory with a templates directory, asset directories, an
\* ai-context directory and a file outside all of them, in readdir order.
RealmWithTemplates ==
    << File(<<".realmkit", "/", "ai-context", "/", "notes">>, <<"hints">>),
       File(<<"docs", "/", "readme">>, <<"readme">>),
       File(<<"lib", "/", "util">>, <<"u">>),
       File(<<"src", "/", "auth", "/", "guard">>, <<"asset">>),
       File(<<"src", "/", "index">>, Token("A")),
       File(<<"templates", "/", "auth", "/", "login">>, <<"login">>),
       File(<<"templates", "/", "billing", "/", "plan">>, <<"plan">>),
       File(<<"templates", "/", "both">>, Marker(<<AUTH, PAYMENTS>>) \o <<"x">>),
       File(<<"templates", "/", "config">>,
            <<"name", "=">> \o Token("A") \o <<Space, "url", "=">> \o Token("B")),
       File(<<"templates", "/", "inj">>, Token("A") \o Marker(<<PAYMENTS>>)),
       File(<<"templates", "/", "o", "auth", "/", "cb">>, <<"cb">>),
       File(<<"templates", "/", "pay">>, Marker(<<PAYMENTS>>) \o <<"x">>),
       File(<<"templates", "/", "src", "/", "auth", "/", "guard">>, <<"tmpl">>) >>

\* A realm directory without a templates directory.
RealmWithoutTemplates ==
    << File(<<"docs", "/", "readme">>, <<"readme">>),
       File(<<"src", "/", "index">>, Token("A")) >>

RealmTrees == {RealmWithTemplates, RealmWithoutTemplates}

Variable(name, required, defaultValue) ==
    [name |-> name, required |-> required, defaultValue |-> defaultValue]

Feature(id, required) == [id |-> id, required |-> required]

\* command: the shell command ("" when the step has none); requires: the
\* variable names (<<>> when the key is absent).
SetupStep(command, requires, optional) ==
    [command |-> command, requires |-> requires, optional |-> optional]

DefaultUrl == Str(<<"http://localhost:3000">>)

VariableDeclarations ==
    { << Variable("A", TRUE, Undefined), Variable("B", FALSE, DefaultUrl) >>,
      << Variable("A", TRUE, DefaultUrl), Variable("B", TRUE, Undefined) >>,
      << Variable("A", FALSE, Undefined) >> }

FeatureDeclarations ==
    { << Feature(AUTH, TRUE), Feature(PAYMENTS, FALSE) >>,
      << Feature(PAYMENTS, FALSE) >> }

StepLists ==
    { <<>>,
      << SetupStep("install", <<>>, FALSE), SetupStep("migrate", <<"B">>, TRUE),
         SetupStep("", <<>>, FALSE) >>,
      << SetupStep("seed", <<"A">>, FALSE), SetupStep("lint", <<>>, TRUE),
         SetupStep("build", <<>>, FALSE) >> }

Manifests ==
    [slug : {"starter"}, version : {"1.0.0"},
     features : FeatureDeclarations, variables : VariableDeclarations,
     setup_steps : StepLists]

Binding(name, value) == [name |-> name, value |-> value]

Acme == Str(<<"acme">>)

GHOST == <<"ghost">>
SPECTRE == <<"spectre">>

\* config.variables objects, as entry sequences in insertion order.
VariableObjects ==
    { <<>>,
      << Binding("A", Acme) >>,
      << Binding("B", Bool(TRUE)) >>,
      << Binding("A", Acme), Binding("B", Str(<<"url">>)) >>,
      << Binding("B", Acme), Binding("A", Str(Marker(<<AUTH>>))) >> }

EnabledFeatureLists ==
    { <<>>, <<AUTH>>, <<PAYMENTS>>, <<AUTH, PAYMENTS>>, <<AUTH, GHOST>>, <<GHOST, SPECTRE>> }

\* The realm directory, and the output paths of a caller: one beside the
\* realm and one inside the realm's templates directory (neither exists
\* before the first run).
RealmPath == <<"realm">>
OutputPaths == { <<"app">>, <<"realm", "/", "templates", "/", "app">> }

Configs ==
    [projectName : {"app"}, realmPath : {RealmPath}, outputPath : OutputPaths,
     variables : VariableObjects, enabledFeatures : EnabledFeatureLists]

\* A realm with two declared variables, two features, two templates and no
\* setup step, and a config that binds the required variable only and
\* enables the required feature only.
ScenarioRealm ==
    << File(<<"templates", "/", "billing", "/", "plan.txt">>, <<"plan">>),
       File(<<"templates", "/", "config.txt">>,
            <<"name", "=">> \o Token("PROJECT_NAME") \o <<Space, "url", "=">>
                \o Token("BASE_URL")) >>

ScenarioManifest ==
    [slug |-> "starter", version |-> "1.0.0",
     features |-> << Feature(AUTH, TRUE), Feature(PAYMENTS, FALSE) >>,
     variables |-> << Variable("PROJECT_NAME", TRUE, Undefined),
                      Variable("BASE_URL", FALSE, DefaultUrl) >>,
     setup_steps |-> <<>>]

\* createCommand's arguments: the realm path, the project name and the
\* project path resolved from it; variables and features come later.
CommandArguments ==
    [projectName |-> "app", realmPath |-> RealmPath, outputPath |-> <<"app">>,
     variables |-> <<>>, enabledFeatures |-> <<>>]

ScenarioConfig ==
    [projectName |-> "app", realmPath |-> RealmPath, outputPath |-> <<"app">>,
     variables |-> << Binding("PROJECT_NAME", Acme) >>,
     enabledFeatures |-> << AUTH >>]

\* Ids detectFeatures pushes that shouldIncludeFile has no directories for.
AUTHENTICATION == <<"authentication">>
LANDING == <<"landing">>
DATABASE == <<"database">>

\* generateRealmManifest: one feature per detected id, required for
\* authentication only, the variables it is given and three fixed steps.
generateRealmManifest(features, variables) ==
    [slug |-> "saas-starter", version |-> "1.0.0",
     features |-> [i \in 1..Len(features) |->
                      Feature(features[i], features[i] = AUTHENTICATION)],
     variables |-> variables,
     setup_steps |-> << SetupStep("npm install", <<>>, FALSE),
                        SetupStep("cp .env.example .env.local", <<>>, FALSE),
                        SetupStep("npx prisma db push", <<"DATABASE_URL">>,
                                  FALSE) >>]

\* A realm written to the generated manifest's schema, with a template under
\* each gated directory, and a configuration that enables every feature the
\* manifest declares.
ExtractedRealm ==
    << File(<<"templates", "/", "admin", "/", "users">>, <<"users">>),
       File(<<"templates", "/", "auth", "/", "login">>, <<"login">>),
       File(<<"templates", "/", "billing", "/", "plan">>, <<"plan">>),
       File(<<"templates", "/", "email", "/", "welcome">>, <<"welcome">>) >>

\* The manifest for every id detectFeatures can push, in the order it pushes
\* them. The manifest declares DATABASE_URL, which its third step requires, as
\* createVariableDefinition does: required and without a default.
ExtractedManifest ==
    generateRealmManifest(<<AUTHENTICATION, PAYMENTS, EMAIL, ADMIN, LANDING, DATABASE>>,
                          << Variable("DATABASE_URL", TRUE, Undefined) >>)

ExtractedConfig ==
    [projectName |-> "app", realmPath |-> RealmPath, outputPath |-> <<"app">>,
     variables |-> << Binding("DATABASE_URL", Str(<<"postgres">>)) >>,
     enabledFeatures |-> [i \in 1..Len(ExtractedManifest.features) |->
                             ExtractedManifest.features[i].id]]

\* ------------------------------------------------------------------ state

VARIABLES
    config,       \* ProjectCreator.config
    manifest,     \* ProjectCreator.manifest
    realmFiles,   \* the files under config.realmPath
    disk,         \* what is at config.outputPath
    state,        \* where the run of create() is
    started,      \* the stages this run has started, in order
    error,        \* the Error a failed run threw
    stepIdx,      \* runSetupSteps: the index of the step to handle next
    ranCommands,  \* the commands this run passed to execSync, in order
    child,        \* the command execSync is waiting for ("" when none)
    handled,      \* runSetupSteps: how each step handled so far ended, in order
    runNo,        \* the create() calls made so far
    left,         \* what the last run that failed after validation left behind
    diskAtStart,  \* disk when this run's create() was called
    other,        \* a second ProjectCreator's run, while the first one is scheduled
    command,      \* createCommand: where it is, and its options
    packageJson,  \* the package.json of the project the extractor analyses
    analysis,     \* what RealmExtractor.analyzeProject returned or threw
    extractor,    \* the RealmExtractor's projectPath and outputPath
    projectFiles, \* the entries of the project directory, in readdir order
    extraction,   \* where extract() is, what it computed and what it created
    template,     \* a template's content (the substitution specification)
    outputs       \* what applyVariableSubstitution returned for it, call by call

vars == <<config, manifest, realmFiles, disk, state, started, error, stepIdx,
          ranCommands, child, handled, runNo, left, diskAtStart, other,
          command, packageJson, extractor,
          projectFiles, extraction, analysis, template, outputs>>

\* What no stage of create() assigns.
inputs == <<config, manifest, realmFiles, other, command, packageJson, extractor,
            projectFiles, extraction, analysis,
           template, outputs>>

NoOrigin == [written |-> FALSE]
NoError == [kind |-> "", items |-> <<>>]

\* No directory at the output path.
NoDisk == [exists |-> FALSE, dirs |-> {}, files |-> <<>>, origin |-> NoOrigin]

\* The run of a ProjectCreator whose create() has not been called.
NotCalled(n) ==
    [state |-> "Pending", started |-> <<>>, error |-> NoError, stepIdx |-> 1,
     ranCommands |-> <<>>, child |-> "", handled |-> <<>>, runNo |-> n,
     diskAtStart |-> NoDisk]

\* No package.json in the project directory.
NoPackageJson == [exists |-> FALSE, dependencies |-> <<>>, devDependencies |-> <<>>]

\* analyzeProject has not been called.
NotAnalysed == [done |-> FALSE, error |-> "", framework |-> "", structure |-> <<>>]

\* No RealmExtractor has been constructed.
NoExtractor == [projectPath |-> <<>>, outputPath |-> <<>>]

\* extract() has not been called.
NotExtracted ==
    [stage |-> "None", features |-> <<>>, templates |-> <<>>, variables |-> <<>>,
     created |-> {}, returned |-> FALSE]

\* The ProjectCreator is used directly, not from createCommand.
NoCommand == [at |-> "None", git |-> FALSE]

\* No failed run has left anything at the output path, or the caller has
\* removed it since.
NothingLeft == [by |-> "", disk |-> NoDisk]

\* fs.writeFileSync / fs.copyFileSync of one file: `files` is the sequence of
\* the files below the output path, one entry per path.
WriteFile(files, path, content) ==
    IF \E i \in 1..Len(files) : files[i].path = path
    THEN [i \in 1..Len(files) |->
             IF files[i].path = path THEN File(path, content) ELSE files[i]]
    ELSE Append(files, File(path, content))

HasFile(files, path) == \E i \in 1..Len(files) : files[i].path = path

ContentOf(files, path) ==
    files[CHOOSE i \in 1..Len(files) : files[i].path = path].content

Init ==
    /\ \/ /\ config \in Configs
          /\ manifest \in Manifests
          /\ realmFiles \in RealmTrees
          /\ command = NoCommand
          /\ state = "Pending"
       \/ /\ config = ScenarioConfig
          /\ manifest = ScenarioManifest
          /\ realmFiles = ScenarioRealm
          /\ command = NoCommand
          /\ state = "Pending"
       \/ /\ config = ExtractedConfig
          /\ manifest = ExtractedManifest
          /\ realmFiles = ExtractedRealm
          /\ command = NoCommand
          /\ state = "Pending"
       \/ /\ config = CommandArguments
          /\ manifest = ScenarioManifest
          /\ realmFiles = ScenarioRealm
          /\ command \in [at : {"Called"}, git : BOOLEAN]
          /\ state = "NotConstructed"
    /\ disk = NoDisk
    /\ started = <<>>
    /\ error = NoError
    /\ stepIdx = 1
    /\ ranCommands = <<>>
    /\ child = ""
    /\ handled = <<>>
    /\ runNo = 1
    /\ left = NothingLeft
    /\ diskAtStart = NoDisk
    /\ packageJson = NoPackageJson
    /\ extractor = NoExtractor
    /\ projectFiles = <<>>
    /\ extraction = NotExtracted
    /\ analysis = NotAnalysed
    /\ other = NotCalled(0)
    /\ template = <<>>
    /\ outputs = <<>>

\* ----------------------------------------------------------------- create

\* create() with processTemplates awaited before createProjectDirectory.
pipelineTemplatesFirst ==
    << [state |-> "Validating", stage |-> "validateConfig"],
       [state |-> "Templating", stage |-> "processTemplates"],
       [state |-> "Scaffolding", stage |-> "createProjectDirectory"],
       [state |-> "SettingUp", stage |-> "runSetupSteps"],
       [state |-> "Tracking", stage |-> "createProjectTracking"] >>

\* create() with the directory made before the configuration is validated.
pipelineScaffoldFirst ==
    << [state |-> "Scaffolding", stage |-> "createProjectDirectory"],
       [state |-> "Validating", stage |-> "validateConfig"],
       [state |-> "Templating", stage |-> "processTemplates"],
       [state |-> "SettingUp", stage |-> "runSetupSteps"],
       [state |-> "Tracking", stage |-> "createProjectTracking"] >>

\* Lines 68-95: the stages create() awaits, in order, each with the state the
\* run is in while the stage runs.
pipeline ==
    << [state |-> "Validating", stage |-> "validateConfig"],
       [state |-> "Scaffolding", stage |-> "createProjectDirectory"],
       [state |-> "Templating", stage |-> "processTemplates"],
       [state |-> "SettingUp", stage |-> "runSetupSteps"],
       [state |-> "Tracking", stage |-> "createProjectTracking"] >>

\* The state after the stage of state `s` has returned: the next stage's, or
\* Done after the last.
StateAfter(s) ==
    LET k == CHOOSE i \in 1..Len(pipeline) : pipeline[i].state = s
    IN  IF k = Len(pipeline) THEN "Done" ELSE pipeline[k + 1].state

\* A stage throws: create() rejects and nothing after the await runs.
Throw(kind, items) ==
    /\ state' = "Failed"
    /\ error' = [kind |-> kind, items |-> items]

\* create() is called and reaches its first await (lines 68-72).
create ==
    /\ state = "Pending"
    /\ state' = pipeline[1].state
    /\ diskAtStart' = disk
    /\ UNCHANGED <<inputs, disk, started, error, stepIdx,
                   ranCommands, child, handled, runNo, left>>

\* ---------------------------------------------------------- validateConfig

\* Lines 118-119.
missingVars(cfg, man) ==
    SelectSeq(SelectSeq(man.variables, LAMBDA v : v.required),
              LAMBDA v : ~HasKey(cfg.variables, v.name))

\* Lines 126-127.
invalidFeatures(cfg, man) ==
    LET availableFeatures == [i \in 1..Len(man.features) |-> man.features[i].id]
    IN  SelectSeq(cfg.enabledFeatures, LAMBDA f : ~ArrIncludes(availableFeatures, f))

\* validateConfig without the check of lines 113-115.
validationErrorNoExistsCheck(cfg, man, dsk) ==
    IF Len(missingVars(cfg, man)) > 0
    THEN [kind |-> "Missing required variables",
          items |-> [i \in 1..Len(missingVars(cfg, man)) |-> <<missingVars(cfg, man)[i].name>>]]
    ELSE IF Len(invalidFeatures(cfg, man)) > 0
    THEN [kind |-> "Invalid features", items |-> invalidFeatures(cfg, man)]
    ELSE [kind |-> "", items |-> <<>>]

\* Lines 111-134: the Error validateConfig throws, NoError when it returns.
\* The three checks run in this order and the first that fails throws.
validationError(cfg, man, dsk) ==
    IF dsk.exists
    THEN [kind |-> "Directory already exists", items |-> <<>>]
    ELSE IF Len(missingVars(cfg, man)) > 0
    THEN [kind |-> "Missing required variables",
          items |-> [i \in 1..Len(missingVars(cfg, man)) |-> <<missingVars(cfg, man)[i].name>>]]
    ELSE IF Len(invalidFeatures(cfg, man)) > 0
    THEN [kind |-> "Invalid features", items |-> invalidFeatures(cfg, man)]
    ELSE NoError

validateConfig ==
    /\ state = "Validating"
    /\ started' = Append(started, "validateConfig")
    /\ IF validationError(config, manifest, disk) # NoError
       THEN Throw(validationError(config, manifest, disk).kind,
                  validationError(config, manifest, disk).items)
       ELSE state' = StateAfter(state) /\ error' = error
    /\ UNCHANGED <<inputs, disk, stepIdx, ranCommands, child, handled, runNo, left,
                   diskAtStart>>

\* --------------------------------------------------- createProjectDirectory

\* Lines 140 and 146: src, then the other important directories.
importantDirs == <<"src", "prisma", "public", "components", "lib", "styles">>

\* The realm files copyDirectory copies, in the order of the calls.
RECURSIVE assetFiles(_, _)
assetFiles(files, k) ==
    IF k > Len(importantDirs) THEN <<>>
    ELSE SelectSeq(files, LAMBDA f : Under(<<importantDirs[k]>>, f.path))
             \o assetFiles(files, k + 1)

\* Lines 157-175: the first n of `files` copied to the same relative paths below
\* the output path, their directories made on the way.
RECURSIVE copyDirectory(_, _, _)
copyDirectory(dsk, files, n) ==
    IF n = 0 THEN dsk
    ELSE LET prev == copyDirectory(dsk, files, n - 1)
         IN  [prev EXCEPT !.dirs = @ \cup DirsOf(files[n].path),
                          !.files = WriteFile(@, files[n].path, files[n].content)]

\* Lines 136-155.  fs may throw at mkdirSync, or at the copy of any file after
\* the ones before it were copied.
createProjectDirectory ==
    /\ state = "Scaffolding"
    /\ started' = Append(started, "createProjectDirectory")
    /\ LET assets == assetFiles(realmFiles, 1)
           made == [disk EXCEPT !.exists = TRUE]
       IN  \/ /\ disk' = copyDirectory(made, assets, Len(assets))
              /\ state' = StateAfter(state)
              /\ error' = error
           \/ /\ disk' = disk
              /\ Throw("IOFailure", <<>>)
           \/ \E n \in 0..(Len(assets) - 1) :
                 /\ disk' = [copyDirectory(made, assets, n)
                                EXCEPT !.dirs = @ \cup DirsOf(assets[n + 1].path)]
                 /\ Throw("IOFailure", <<>>)
    /\ UNCHANGED <<inputs, stepIdx, ranCommands, child, handled, runNo, left, diskAtStart>>

\* --------------------------------------------------------- processTemplates

templatesPath == <<"templates">>

\* The files of the templates directory, paths relative to it.
templateFiles(files) ==
    LET under == SelectSeq(files, LAMBDA f : Under(templatesPath, f.path))
    IN  [i \in 1..Len(under) |-> File(Relative(templatesPath, under[i].path), under[i].content)]

\* Lines 189-212 for the first n template files: the directories are made, the
\* content is substituted, and the substituted content is written when
\* shouldIncludeFile accepts the destination path and the substituted content.
RECURSIVE processTemplateDirectory(_, _, _, _, _)
processTemplateDirectory(dsk, templates, n, cfg, man) ==
    IF n = 0 THEN dsk
    ELSE LET prev == processTemplateDirectory(dsk, templates, n - 1, cfg, man)
             processedContent ==
                 applyVariableSubstitution(templates[n].content, cfg.variables, man.variables)
         IN  [prev EXCEPT
                 !.dirs = @ \cup DirsOf(templates[n].path),
                 !.files = IF shouldIncludeFile(templates[n].path, processedContent,
                                                cfg.enabledFeatures)
                           THEN WriteFile(@, templates[n].path, processedContent)
                           ELSE @]

\* The output path is a directory directly inside the realm's templates
\* directory, so readdirSync(templatesPath) of line 190 lists it.
outputInTemplates(cfg) ==
    /\ Under(cfg.realmPath \o <<"/">> \o templatesPath, cfg.outputPath)
    /\ Len(Relative(cfg.realmPath \o <<"/">> \o templatesPath, cfg.outputPath)) = 1

\* Lines 196-200 when srcPath is the output directory: destPath is the
\* directory of the same name inside it, line 198 makes it and line 200
\* recurses with it as srcPath, where readdirSync lists the directory just
\* made.  These are the first n directories made that way, as paths below
\* the output path (the output directory is listed first in its parent and
\* in itself: "app" sorts before every other entry).
RECURSIVE selfCopies(_, _)
selfCopies(cfg, n) ==
    IF n = 0 THEN {}
    ELSE LET name == cfg.outputPath[Len(cfg.outputPath)]
             shorter == selfCopies(cfg, n - 1)
         IN  shorter \cup
             { IF n = 1 THEN <<name>>
               ELSE (CHOOSE d \in shorter : Len(d) = 2 * (n - 1) - 1) \o <<"/", name>> }

\* Lines 177-187.  Without a templates directory nothing is processed.  fs may
\* throw at any file after the ones before it were processed.  With the output
\* directory inside the templates directory the recursion of lines 196-200
\* follows the directories it makes until fs throws.
processTemplates ==
    /\ state = "Templating"
    /\ started' = Append(started, "processTemplates")
    /\ LET templates == templateFiles(realmFiles)
       IN  IF outputInTemplates(config)
           THEN \E n \in 0..MaxNesting :
                   /\ disk' = [disk EXCEPT !.dirs = @ \cup selfCopies(config, n)]
                   /\ Throw("IOFailure", <<>>)
           ELSE \/ /\ disk' = processTemplateDirectory(disk, templates, Len(templates),
                                                       config, manifest)
                   /\ state' = StateAfter(state)
                   /\ error' = error
                \/ \E n \in 0..(Len(templates) - 1) :
                      /\ disk' = [processTemplateDirectory(disk, templates, n, config,
                                                           manifest)
                                     EXCEPT !.dirs = @ \cup DirsOf(templates[n + 1].path)]
                      /\ Throw("IOFailure", <<>>)
    /\ UNCHANGED <<inputs, stepIdx, ranCommands, child, handled, runNo, left, diskAtStart>>

\* ------------------------------------------------------------ runSetupSteps

\* Line 281.
missingStepVars(step, cfg) ==
    SelectSeq(step.requires, LAMBDA varName : ~HasKey(cfg.variables, varName))

\* execSync never blocking the loop (a command started without waiting).
blockedNever == FALSE

\* Line 294: execSync has not returned; the one thread waits for the child
\* process.
blocked == child # ""

\* Lines 273-293 and 307-311: one pass of the for loop up to the call of
\* execSync (or to the end of a pass that calls no command), or the loop's
\* exit.
runSetupSteps ==
    /\ state = "SettingUp"
    /\ ~blocked
    /\ started' = IF stepIdx = 1 THEN Append(started, "runSetupSteps") ELSE started
    /\ IF stepIdx > Len(manifest.setup_steps)
       THEN /\ state' = StateAfter(state)
            /\ UNCHANGED <<error, stepIdx, ranCommands, child, handled>>
       ELSE LET step == manifest.setup_steps[stepIdx]
                missing == missingStepVars(step, config)
            IN  IF Len(missing) > 0
                THEN IF step.optional
                     THEN /\ stepIdx' = stepIdx + 1
                          /\ handled' = Append(handled, "skipped")
                          /\ UNCHANGED <<state, error, ranCommands, child>>
                     ELSE /\ Throw("Step requires variables",
                                   [i \in 1..Len(missing) |-> <<missing[i]>>])
                          /\ handled' = Append(handled, "refused")
                          /\ UNCHANGED <<stepIdx, ranCommands, child>>
                ELSE IF step.command = ""
                THEN /\ stepIdx' = stepIdx + 1
                     /\ handled' = Append(handled, "no command")
                     /\ UNCHANGED <<state, error, ranCommands, child>>
                ELSE /\ ranCommands' = Append(ranCommands, step.command)
                     /\ child' = step.command
                     /\ UNCHANGED <<state, error, stepIdx, handled>>
    /\ UNCHANGED <<inputs, disk, runNo, left, diskAtStart>>

\* The catch block tolerating the failure of every step.
toleratedAlways(step) == TRUE

\* Line 299.
tolerated(step) == step.optional

\* Lines 294-305: the child process ends as the external command decides;
\* execSync returns, or throws and the catch block tolerates the failure of
\* an optional step and rethrows otherwise.
execSync ==
    /\ state = "SettingUp"
    /\ child # ""
    /\ child' = ""
    /\ \E succeeded \in BOOLEAN :
          IF succeeded
          THEN /\ stepIdx' = stepIdx + 1
               /\ handled' = Append(handled, "completed")
               /\ UNCHANGED <<state, error>>
          ELSE IF tolerated(manifest.setup_steps[stepIdx])
          THEN /\ stepIdx' = stepIdx + 1
               /\ handled' = Append(handled, "tolerated")
               /\ UNCHANGED <<state, error>>
          ELSE /\ Throw("Setup step failed", <<>>)
               /\ handled' = Append(handled, "failed")
               /\ stepIdx' = stepIdx
    /\ UNCHANGED <<inputs, disk, started, ranCommands, runNo, left, diskAtStart>>

\* ---------------------------------------------------- createProjectTracking

trackingDir == <<".realmkit">>
aiContext == trackingDir \o <<"/", "ai-context">>

\* Lines 314-322; createdAt is the number of the run, a logical clock.
trackingData(cfg, man, now) ==
    [written |-> TRUE,
     projectName |-> cfg.projectName,
     realmSlug |-> man.slug,
     realmVersion |-> man.version,
     createdAt |-> now,
     variables |-> cfg.variables,
     enabledFeatures |-> cfg.enabledFeatures,
     realmPath |-> cfg.realmPath]

\* Lines 313-343.  fs may throw at mkdirSync, at writeFileSync, or in the copy
\* of the ai-context directory.
createProjectTracking ==
    /\ state = "Tracking"
    /\ started' = Append(started, "createProjectTracking")
    /\ LET made == [disk EXCEPT !.dirs = @ \cup {trackingDir}]
           saved == [made EXCEPT !.origin = trackingData(config, manifest, runNo)]
           context == SelectSeq(realmFiles, LAMBDA f : Under(aiContext, f.path))
       IN  \/ /\ disk' = copyDirectory(saved, context, Len(context))
              /\ state' = StateAfter(state)
              /\ error' = error
           \/ /\ disk' \in {disk, made} \cup (IF context # <<>> THEN {saved} ELSE {})
              /\ Throw("IOFailure", <<>>)
    /\ UNCHANGED <<inputs, stepIdx, ranCommands, child, handled, runNo, left, diskAtStart>>

\* ------------------------------------------------------------- the caller

\* Once a run has ended the caller may remove the output directory, and
\* constructs a further ProjectCreator with the same config (lines 63-66).
newProjectCreator ==
    /\ command = NoCommand
    /\ state \in {"Done", "Failed"}
    /\ runNo < MaxRuns
    /\ \E removed \in BOOLEAN :
          /\ disk' = IF removed THEN NoDisk ELSE disk
          /\ left' = IF removed THEN NothingLeft
                     ELSE IF state = "Failed" /\ started[Len(started)] # pipeline[1].stage
                     THEN [by |-> started[Len(started)], disk |-> disk]
                     ELSE left
    /\ state' = "Pending"
    /\ started' = <<>>
    /\ error' = NoError
    /\ stepIdx' = 1
    /\ ranCommands' = <<>>
    /\ child' = ""
    /\ handled' = <<>>
    /\ runNo' = runNo + 1
    /\ UNCHANGED <<inputs, diskAtStart>>

\* ------------------------------------------------------------ createCommand

\* commands/create.ts lines 143-149: every feature of the manifest is enabled
\* and two variables are bound from the project name.
commandVariables(projectName) ==
    << Binding("PROJECT_NAME", Str(<<projectName>>)),
       Binding("PROJECT_DESCRIPTION", Str(<<"A", Space, projectName, Space, "application">>)) >>

availableFeatures(man) == [i \in 1..Len(man.features) |-> man.features[i].id]

\* commands/create.ts lines 18-164 and 354-366 for a local realm directory
\* with a manifest: the project directory is made when it does not exist,
\* then the ProjectCreator is constructed.  fs may throw at mkdirSync, and the
\* catch of lines 399-404 exits with 1.
createCommand ==
    /\ command.at = "Called"
    /\ \/ /\ disk' = [disk EXCEPT !.exists = TRUE]
          /\ config' = [config EXCEPT !.variables = commandVariables(config.projectName),
                                      !.enabledFeatures = availableFeatures(manifest)]
          /\ state' = "Pending"
          /\ command' = [command EXCEPT !.at = "Creating"]
       \/ /\ ~disk.exists
          /\ command' = [command EXCEPT !.at = "Exit1"]
          /\ UNCHANGED <<disk, config, state>>
    /\ UNCHANGED <<manifest, realmFiles, started, error, stepIdx, ranCommands, child,
                   handled, runNo, left, diskAtStart, other, packageJson, extractor,
                   projectFiles, extraction, analysis,
                   template, outputs>>

\* commands/create.ts lines 367-405, after `await creator.create()`: when it
\* rejected the catch exits with 1; when it resolved git is initialised if
\* asked for (execSync may throw) and the command succeeds.
createCommandEnds ==
    /\ command.at = "Creating"
    /\ state \in {"Done", "Failed"}
    /\ IF state = "Failed"
       THEN command' = [command EXCEPT !.at = "Exit1"]
       ELSE \E gitSucceeded \in BOOLEAN :
               command' = [command EXCEPT
                              !.at = IF command.git /\ ~gitSucceeded
                                     THEN "Exit1" ELSE "Succeeded"]
    /\ UNCHANGED <<config, manifest, realmFiles, disk, state, started, error, stepIdx,
                   ranCommands, child, handled, runNo, left, diskAtStart, other,
                   packageJson, extractor,
                   projectFiles, extraction, analysis, template, outputs>>

Next ==
    \/ createCommand
    \/ createCommandEnds
    \/ create
    \/ validateConfig
    \/ createProjectDirectory
    \/ processTemplates
    \/ runSetupSteps
    \/ execSync
    \/ createProjectTracking
    \/ newProjectCreator

Spec == Init /\ [][Next]_vars

\* ------------------------------------------------ two concurrent creators

\* Two ProjectCreator objects with the same config, in two processes, neither
\* create() called yet: the run of one is in state, started, ..., the run of
\* the other is in `other`.
ConcurrentInit ==
    /\ config \in {c \in Configs : /\ c.outputPath = <<"app">>
                                   /\ c.variables = << Binding("A", Acme) >>
                                   /\ c.enabledFeatures \in {<<AUTH>>, <<AUTH, PAYMENTS>>}}
    /\ manifest \in {m \in Manifests : /\ m.variables[1].defaultValue = Undefined
                                       /\ Len(m.variables) = 2
                                       /\ Len(m.features) = 2}
    /\ realmFiles \in RealmTrees
    /\ disk = NoDisk
    /\ state = "Pending"
    /\ started = <<>>
    /\ error = NoError
    /\ stepIdx = 1
    /\ ranCommands = <<>>
    /\ child = ""
    /\ handled = <<>>
    /\ runNo = 1
    /\ left = NothingLeft
    /\ diskAtStart = NoDisk
    /\ packageJson = NoPackageJson
    /\ extractor = NoExtractor
    /\ projectFiles = <<>>
    /\ extraction = NotExtracted
    /\ analysis = NotAnalysed
    /\ other = NotCalled(2)
    /\ command = NoCommand
    /\ template = <<>>
    /\ outputs = <<>>

\* The scheduler takes the processor from one process and gives it to the
\* other, between two stages of create() or while execSync waits: the two
\* runs change places, the file system is the same for both.
yield ==
    /\ other' = [state |-> state, started |-> started, error |-> error,
                 stepIdx |-> stepIdx, ranCommands |-> ranCommands, child |-> child,
                 handled |-> handled, runNo |-> runNo, diskAtStart |-> diskAtStart]
    /\ state' = other.state
    /\ started' = other.started
    /\ error' = other.error
    /\ stepIdx' = other.stepIdx
    /\ ranCommands' = other.ranCommands
    /\ child' = other.child
    /\ handled' = other.handled
    /\ runNo' = other.runNo
    /\ diskAtStart' = other.diskAtStart
    /\ UNCHANGED <<config, manifest, realmFiles, disk, left, command, packageJson, extractor,
                   projectFiles, extraction,
                   analysis, template, outputs>>

ConcurrentNext ==
    \/ create
    \/ validateConfig
    \/ createProjectDirectory
    \/ processTemplates
    \/ runSetupSteps
    \/ execSync
    \/ createProjectTracking
    \/ yield

SpecConcurrent == ConcurrentInit /\ [][ConcurrentNext]_vars

\* ------------------------------------------- the substitution specification

\* What a template content is built of: text, the tokens of three variables,
\* and loose braces.
Segments ==
    {<<"x">>, Token("A"), Token("B"), Token("C"), <<"{", "{">>, <<"}", "}">>}

\* The concatenations of at most n segments.
RECURSIVE Contents(_)
Contents(n) ==
    IF n = 0 THEN {<<>>}
    ELSE LET shorter == Contents(n - 1)
         IN  shorter \cup {c \o sgm : c \in shorter, sgm \in Segments}

SubstDeclarations ==
    { << Variable("A", TRUE, Undefined), Variable("B", FALSE, DefaultUrl),
         Variable("C", FALSE, Undefined) >>,
      << Variable("A", FALSE, Undefined), Variable("B", FALSE, Undefined),
         Variable("C", FALSE, Str(<<"d">>)) >> }

SubstVariableObjects ==
    { <<>>,
      << Binding("A", Acme) >>,
      << Binding("A", Bool(TRUE)) >>,
      << Binding("A", Str(<<"$", "$">>)) >>,
      << Binding("A", Str(<<"{", "$", "&", "}">>)) >>,
      << Binding("A", Acme), Binding("B", Str(<<"url">>)) >>,
      << Binding("B", Str(<<"url">>)), Binding("A", Str(<<"B">>)) >>,
      << Binding("A", Str(Token("B"))), Binding("B", Str(<<"url">>)) >> }

SubstInit ==
    /\ template \in Contents(MaxSegs)
    /\ config \in [projectName : {"app"}, realmPath : {RealmPath}, outputPath : {<<"app">>},
                   variables : SubstVariableObjects, enabledFeatures : {<<>>}]
    /\ manifest \in [slug : {"starter"}, version : {"1.0.0"}, features : {<<>>},
                     variables : SubstDeclarations, setup_steps : {<<>>}]
    /\ outputs = <<>>
    /\ realmFiles = <<>>
    /\ disk = NoDisk
    /\ state = "Pending"
    /\ started = <<>>
    /\ error = NoError
    /\ stepIdx = 1
    /\ ranCommands = <<>>
    /\ child = ""
    /\ handled = <<>>
    /\ runNo = 1
    /\ left = NothingLeft
    /\ diskAtStart = NoDisk
    /\ packageJson = NoPackageJson
    /\ extractor = NoExtractor
    /\ projectFiles = <<>>
    /\ extraction = NotExtracted
    /\ analysis = NotAnalysed
    /\ other = NotCalled(0)
    /\ command = NoCommand

\* applyVariableSubstitution on the template's content (line 204).
substitute ==
    /\ outputs = <<>>
    /\ outputs' = <<applyVariableSubstitution(template, config.variables, manifest.variables)>>
    /\ UNCHANGED <<config, manifest, realmFiles, disk, state, started, error, stepIdx,
                   ranCommands, child, handled, runNo, left, diskAtStart, other,
                   command, packageJson, extractor,
                   projectFiles, extraction, analysis, template>>

\* applyVariableSubstitution on its own output, with the same bindings.
resubstitute ==
    /\ Len(outputs) = 1
    /\ outputs' = Append(outputs,
                         applyVariableSubstitution(outputs[1], config.variables,
                                                   manifest.variables))
    /\ UNCHANGED <<config, manifest, realmFiles, disk, state, started, error, stepIdx,
                   ranCommands, child, handled, runNo, left, diskAtStart, other,
                   command, packageJson, extractor,
                   projectFiles, extraction, analysis, template>>

SubstNext == substitute \/ resubstitute

SpecSubst == SubstInit /\ [][SubstNext]_vars

\* ------------------------------------------- RealmExtractor.analyzeProject

\* One entry of the dependencies or devDependencies object of package.json.
Dep(name, version) == [name |-> name, version |-> version]

\* The version strings of an entry: a range, and the empty string, which npm
\* reads as any version.
Versions == {"1.0.0", ""}

Deps == {Dep(name, version) : name \in {"next", "react", "vue", "express"},
                              version \in Versions}

\* The objects of at most n entries, as entry sequences in key order.
RECURSIVE DepObjects(_)
DepObjects(n) ==
    IF n = 0 THEN {<<>>}
    ELSE LET shorter == DepObjects(n - 1)
         IN  shorter \cup
             {Append(p[1], p[2]) :
                 p \in {q \in shorter \X Deps :
                           \A i \in 1..Len(q[1]) : q[1][i].name # q[2].name}}

PackageJsons ==
    [exists : {TRUE}, dependencies : DepObjects(MaxDeps),
     devDependencies : DepObjects(MaxDeps)]
        \cup {NoPackageJson}

\* realm-extractor.ts line 92, { ...a, ...b }: the entries of a with the value
\* of b where b has the key, then the entries of b whose key a has not.
Spread(a, b) ==
    [i \in 1..Len(a) |->
        IF \E j \in 1..Len(b) : b[j].name = a[i].name
        THEN b[CHOOSE j \in 1..Len(b) : b[j].name = a[i].name]
        ELSE a[i]]
    \o SelectSeq(b, LAMBDA d : ~\E i \in 1..Len(a) : a[i].name = d.name)

\* `dependencies.key` in a condition: the key is there and its value is not
\* the empty string.
Truthy(dependencies, key) ==
    \E i \in 1..Len(dependencies) :
        dependencies[i].name = key /\ dependencies[i].version # ""

\* realm-extractor.ts lines 95-99.
detectFramework(dependencies) ==
    IF Truthy(dependencies, "next") THEN "nextjs"
    ELSE IF Truthy(dependencies, "react") THEN "react"
    ELSE IF Truthy(dependencies, "vue") THEN "vue"
    ELSE IF Truthy(dependencies, "express") THEN "express"
    ELSE "unknown"

\* ----------------------------------------------------------- the extractor

\* A path of the extractor is the sequence of its components; Cwd is the
\* working directory of the process.
Cwd == <<"work">>

\* The command's defaults (cli.ts lines 28 and 29): a path argument is
\* absolute, or relative to Cwd.
DefaultProject == [absolute |-> FALSE, parts |-> <<".">>]
DefaultOutput == [absolute |-> FALSE, parts |-> <<".", "extracted-realm">>]

\* path.resolve: a relative path is taken from Cwd, "." is dropped and ".."
\* drops the component before it.
resolve(p) ==
    LET RECURSIVE normalize(_, _)
        normalize(done, parts) ==
            IF parts = <<>> THEN done
            ELSE LET part == Head(parts)
                     next == IF part = "." THEN done
                             ELSE IF part = ".."
                             THEN SubSeq(done, 1, Len(done) - 1)
                             ELSE Append(done, part)
                 IN  normalize(next, Tail(parts))
    IN  normalize(IF p.absolute THEN <<>> ELSE Cwd, p.parts)

\* An entry of the project directory, its path relative to the project root.
Entry(path, type, content) == [path |-> path, type |-> type, content |-> content]

\* fs.readdirSync of a directory of the project: the entries directly in it.
readdirSync(files, dir) ==
    SelectSeq(files, LAMBDA e : /\ Len(e.path) = Len(dir) + 1
                                /\ SubSeq(e.path, 1, Len(dir)) = dir)

skipItems ==
    {"node_modules", ".git", ".next", "dist", "build", ".env.local", ".env",
     "coverage", ".nyc_output"}

\* relativePath.split('/'): the components, and one empty string for ''.
split(relativePath) == IF relativePath = <<>> THEN <<"">> ELSE relativePath

\* analyzeStructure (lines 122-158): the loop over the items from the k-th on.
RECURSIVE analyzeItems(_, _, _, _)
analyzeItems(files, relativePath, items, k) ==
    IF k > Len(items) THEN <<>>
    ELSE LET item == items[k].path[Len(items[k].path)]
             relPath == Append(relativePath, item)  \* path.join
             rest == analyzeItems(files, relativePath, items, k + 1)
         IN  IF item \in skipItems THEN rest
             ELSE IF items[k].type = "directory"
             THEN <<[path |-> relPath, type |-> "directory"]>>
                  \o (IF Len(split(relativePath)) < 4
                      THEN analyzeItems(files, relPath, readdirSync(files, relPath), 1)
                      ELSE <<>>)
                  \o rest
             ELSE <<[path |-> relPath, type |-> "file"]>> \o rest

analyzeStructure(files, relativePath) ==
    analyzeItems(files, relativePath, readdirSync(files, relativePath), 1)

\* The words of detectFeatures that a path component contains.
WordsIn(component) ==
    IF component \in {"auth", "billing", "payment", "email", "admin", "marketing",
                      "landing"}
    THEN {component}
    ELSE IF component = "oauth" THEN {"auth"}
    ELSE IF component = "payments" THEN {"payment"}
    ELSE {}

\* structure.some(f => f.path.includes(word)) for one of the words, none of
\* which has a slash.
Some(structure, words) ==
    \E i \in 1..Len(structure) :
        \E k \in 1..Len(structure[i].path) : WordsIn(structure[i].path[k]) \cap words # {}

\* detectFeatures (lines 160-198).
detectFeatures(dependencies, structure) ==
    LET truthy(keys) == \E key \in keys : Truthy(dependencies, key)
    IN  (IF truthy({"next-auth", "@auth/core"}) \/ Some(structure, {"auth"})
         THEN <<AUTHENTICATION>> ELSE <<>>)
        \o (IF truthy({"stripe"}) \/ Some(structure, {"billing", "payment"})
            THEN <<PAYMENTS>> ELSE <<>>)
        \o (IF truthy({"resend", "nodemailer", "@react-email/components"})
               \/ Some(structure, {"email"})
            THEN <<EMAIL>> ELSE <<>>)
        \o (IF Some(structure, {"admin"}) THEN <<ADMIN>> ELSE <<>>)
        \o (IF Some(structure, {"marketing", "landing"}) THEN <<LANDING>> ELSE <<>>)
        \o (IF truthy({"prisma", "mongoose", "sequelize"})
            THEN <<DATABASE>> ELSE <<>>)

\* --------------------------------------------- applyTemplateTransformations

NL == "\n"
Quote == "\""

\* The lexemes the pattern https?:\/\/[a-zA-Z0-9.-]+\.[a-zA-Z]{2,} matches.
IsUrl(a) == a \in {"https://db.example.com", "http://app.io"}

\* The lexemes the e-mail pattern matches.
IsEmail(a) == a \in {"a@b.co"}

\* \s* of the field patterns from i on.
RECURSIVE SkipWhitespace(_, _)
SkipWhitespace(c, i) ==
    IF i <= Len(c) /\ c[i] \in {Space, NL} THEN SkipWhitespace(c, i + 1) ELSE i

Least(S) == CHOOSE x \in S : \A y \in S : x <= y

\* /"field":\s*"[^"]*"/ at i: the index of the closing quote, 0 without a match.
FieldEnd(c, i, field) ==
    IF ~MatchesAt(c, i, <<Quote, field, Quote, ":">>) THEN 0
    ELSE LET open == SkipWhitespace(c, i + 4)
             closing == {k \in (open + 1)..Len(c) : c[k] = Quote}
         IN  IF open <= Len(c) /\ c[open] = Quote /\ closing # {}
             THEN Least(closing)
             ELSE 0

\* /KEY=.*/ at i: the index of the last lexeme of the line, 0 without a match.
AssignEnd(c, i, key) ==
    IF ~MatchesAt(c, i, <<key, "=">>) THEN 0
    ELSE LET ends == {k \in (i + 2)..Len(c) : c[k] = NL}
         IN  IF ends = {} THEN Len(c) ELSE Least(ends) - 1

RECURSIVE Concat(_)
Concat(seqs) == IF seqs = <<>> THEN <<>> ELSE Head(seqs) \o Concat(Tail(seqs))

\* String.replace with a pattern without the g flag: the leftmost match only.
\* ends[i] is the index where the match that starts at i ends, 0 for none.
ReplaceFirst(c, ends, replacement) ==
    LET starts == {i \in 1..Len(c) : ends[i] > 0}
    IN  IF starts = {} THEN c
        ELSE LET i == Least(starts)
             IN  SubSeq(c, 1, i - 1) \o replacement \o SubSeq(c, ends[i] + 1, Len(c))

\* String.replace with a g pattern whose matches are the lexemes at `matches`.
ReplaceEach(c, matches, replacement) ==
    Concat([i \in 1..Len(c) |-> IF i \in matches THEN replacement ELSE <<c[i]>>])

replaceField(c, field, name) ==
    ReplaceFirst(c, [i \in 1..Len(c) |-> FieldEnd(c, i, field)],
                 <<Quote, field, Quote, ":", Space, Quote>> \o Token(name) \o <<Quote>>)

replaceAssignment(c, key) ==
    ReplaceFirst(c, [i \in 1..Len(c) |-> AssignEnd(c, i, key)],
                 <<key, "=">> \o Token(key))

\* applyTemplateTransformations (lines 263-291): the nine replacements, each
\* on the result of the one before.
applyTemplateTransformations(content) ==
    LET name == replaceField(content, "name", "PROJECT_NAME")
        description == replaceField(name, "description", "PROJECT_DESCRIPTION")
        databaseUrl == replaceAssignment(description, "DATABASE_URL")
        nextauthSecret == replaceAssignment(databaseUrl, "NEXTAUTH_SECRET")
        nextauthUrl == replaceAssignment(nextauthSecret, "NEXTAUTH_URL")
        stripeSecretKey == replaceAssignment(nextauthUrl, "STRIPE_SECRET_KEY")
        resendApiKey == replaceAssignment(stripeSecretKey, "RESEND_API_KEY")
        baseUrl == ReplaceEach(resendApiKey,
                               {i \in 1..Len(resendApiKey) : IsUrl(resendApiKey[i])},
                               Token("BASE_URL"))
    IN  ReplaceEach(baseUrl, {i \in 1..Len(baseUrl) : IsEmail(baseUrl[i])},
                    Token("CONTACT_EMAIL"))

importantFiles ==
    << <<"package.json">>, <<"tsconfig.json">>, <<"next.config.js">>,
       <<"tailwind.config.js">>, <<"prisma", "schema.prisma">>, <<".env.example">> >>

existsIn(files, path) == \E i \in 1..Len(files) : files[i].path = path


\* ------------------------------------------------------- identifyVariables

\* The names createVariableDefinition has an entry for, in table order.
WellKnown ==
    << "PROJECT_NAME", "PROJECT_DESCRIPTION", "DATABASE_URL", "NEXTAUTH_SECRET",
       "NEXTAUTH_URL", "STRIPE_SECRET_KEY", "RESEND_API_KEY", "BASE_URL",
       "CONTACT_EMAIL" >>

\* The lexemes that match [A-Z_]+.
IsVarName(a) ==
    \/ \E i \in 1..Len(WellKnown) : WellKnown[i] = a
    \/ a \in {"API_KEY", "SITE", "A", "B", "_"}

\* varName.toLowerCase().replace(/_/g, ' ').
toLowerCase(varName) ==
    IF varName = "API_KEY" THEN <<"api", Space, "key">>
    ELSE IF varName = "SITE" THEN <<"site">>
    ELSE IF varName = "A" THEN <<"a">>
    ELSE IF varName = "B" THEN <<"b">>
    ELSE IF varName = "_" THEN <<Space>>
    ELSE <<varName>>

\* The table of createVariableDefinition (lines 315-375), without the examples.
definitions(varName) ==
    LET Definition(description, required, defaultValue) ==
            [description |-> <<description>>, type |-> "string",
             required |-> required, defaultValue |-> defaultValue]
    IN
    IF varName = "PROJECT_NAME"
    THEN Definition("Name of your project", TRUE, Str(<<"my-saas-app">>))
    ELSE IF varName = "PROJECT_DESCRIPTION"
    THEN Definition("Short description of your project", TRUE,
                    Str(<<"A modern SaaS application">>))
    ELSE IF varName = "DATABASE_URL"
    THEN Definition("PostgreSQL database connection string", TRUE, Undefined)
    ELSE IF varName = "NEXTAUTH_SECRET"
    THEN Definition("Secret key for NextAuth.js JWT signing", TRUE, Undefined)
    ELSE IF varName = "NEXTAUTH_URL"
    THEN Definition("Your application URL", TRUE, DefaultUrl)
    ELSE IF varName = "STRIPE_SECRET_KEY"
    THEN Definition("Stripe secret API key", FALSE, Undefined)
    ELSE IF varName = "RESEND_API_KEY"
    THEN Definition("Resend API key for sending emails", FALSE, Undefined)
    ELSE IF varName = "BASE_URL"
    THEN Definition("Base URL for your application", TRUE, DefaultUrl)
    ELSE Definition("Contact email address", TRUE, Str(<<"hello@example.com">>))

\* createVariableDefinition (lines 314-387): the table's entry, or the
\* fallback of lines 377-381, under the name.
createVariableDefinition(varName) ==
    LET definition ==
            IF \E i \in 1..Len(WellKnown) : WellKnown[i] = varName
            THEN definitions(varName)
            ELSE [description |-> toLowerCase(varName) \o <<Space, "configuration">>,
                  type |-> "string", required |-> FALSE, defaultValue |-> Undefined]
    IN  [name |-> varName, description |-> definition.description,
         type |-> definition.type, required |-> definition.required,
         defaultValue |-> definition.defaultValue]

\* templateVarRegex.exec(content) with the regex's lastIndex, counted in
\* lexemes: the leftmost {{NAME}} after lastIndex, or null with lastIndex 0.
exec(content, lastIndex) ==
    LET hits == {i \in (lastIndex + 1)..Len(content) :
                    /\ MatchesAt(content, i, <<"{", "{">>)
                    /\ MatchesAt(content, i + 3, <<"}", "}">>)
                    /\ IsVarName(content[i + 2])}
    IN  IF hits = {} THEN [found |-> FALSE, name |-> "", lastIndex |-> 0]
        ELSE [found |-> TRUE, name |-> content[Least(hits) + 2],
              lastIndex |-> Least(hits) + 4]

\* seenVariables.has(varName) dropped.
seenNever(variables, varName) == FALSE

\* seenVariables.has(varName): the set holds the names of the entries pushed.
seen(variables, varName) == \E i \in 1..Len(variables) : variables[i].name = varName

\* identifyVariables (lines 293-312): the loops over the templates from the
\* f-th on, with the one regex object's lastIndex.
RECURSIVE identify(_, _, _, _)
identify(templates, f, lastIndex, variables) ==
    IF f > Len(templates) THEN variables
    ELSE LET match == exec(templates[f].content, lastIndex)
         IN  IF ~match.found
             THEN identify(templates, f + 1, match.lastIndex, variables)
             ELSE identify(templates, f, match.lastIndex,
                           IF seen(variables, match.name) THEN variables
                           ELSE Append(variables,
                                       createVariableDefinition(match.name)))

identifyVariables(templates) == identify(templates, 1, 0, <<>>)

\* ---------------------------------------------------- saveExtractionResults

\* The directories that exist before extract(): those above Cwd and above
\* the project, and the project's own.
existsSync(x, files, created, path) ==
    \/ path \in created
    \/ StartsWith(Cwd, path)
    \/ StartsWith(x.projectPath, path)
    \/ /\ StartsWith(path, x.projectPath)
       /\ existsIn(files, SubSeq(path, Len(x.projectPath) + 1, Len(path)))

\* fs.mkdirSync(path, { recursive: true }).
mkdirSync(x, files, created, path) ==
    created \cup {SubSeq(path, 1, k) : k \in {j \in 1..Len(path) :
                     ~existsSync(x, files, created, SubSeq(path, 1, j))}}

\* The calls of saveExtractionResults (lines 465-500) that change the file
\* system, in order; a mkdirSync of a directory that exists changes nothing.
saveCalls(x, templates) ==
    LET templatesDir == Append(x.outputPath, "templates")
        Call(op, path) == [op |-> op, path |-> path]
    IN  <<Call("mkdirSync", x.outputPath),
          Call("writeFileSync", Append(x.outputPath, "realm.yml")),
          Call("mkdirSync", templatesDir)>>
        \o Concat([i \in 1..Len(templates) |->
                      LET templatePath == templatesDir \o templates[i].filename
                      IN  <<Call("mkdirSync",
                                 SubSeq(templatePath, 1, Len(templatePath) - 1)),
                            Call("writeFileSync", templatePath)>>])
        \o <<Call("writeFileSync", Append(x.outputPath, "analysis-report.json"))>>

\* The paths made or written once the first n calls have returned.
RECURSIVE made(_, _, _, _)
made(x, files, calls, n) ==
    IF n = 0 THEN {}
    ELSE LET before == made(x, files, calls, n - 1)
         IN  IF calls[n].op = "mkdirSync"
             THEN mkdirSync(x, files, before, calls[n].path)
             ELSE before \cup {calls[n].path}

\* ------------------------------------------------------- extract()'s inputs

\* Directories one inside the other, as many as depth, and a file in the
\* innermost.
Chain(depth) ==
    LET names == <<"a", "b", "c", "d", "e", "f", "g", "h">>
    IN  [i \in 1..depth |-> Entry(SubSeq(names, 1, i), "directory", <<>>)]
        \o <<Entry(Append(SubSeq(names, 1, depth), "leaf"), "file", <<>>)>>

\* A project with a skipped directory, feature directories and a schema.
FeatureTree ==
    << Entry(<<"node_modules">>, "directory", <<>>),
       Entry(<<"node_modules", "pkg">>, "file", <<>>),
       Entry(<<"prisma">>, "directory", <<>>),
       Entry(<<"prisma", "schema.prisma">>, "file", <<"model">>),
       Entry(<<"src">>, "directory", <<>>),
       Entry(<<"src", "billing">>, "directory", <<>>),
       Entry(<<"src", "oauth">>, "directory", <<>>),
       Entry(<<"src", "oauth", "login">>, "file", <<>>) >>

\* The entry of the package.json the parsed packageJson was read from.
descriptor(p) ==
    LET text == <<"{", Quote, "name", Quote, ":", Space, Quote, "my-app", Quote,
                  Comma, Space, Quote, "author", Quote, ":", Space, Quote, "a@b.co",
                  Quote, "}">>
    IN  IF p.exists THEN <<Entry(<<"package.json">>, "file", text)>> ELSE <<>>

WithNext ==
    [exists |-> TRUE, dependencies |-> <<Dep("next", "1.0.0")>>,
     devDependencies |-> <<>>]

\* The texts of at most n of these lines of an .env.example.
RECURSIVE Texts(_)
Texts(n) ==
    LET lines == { <<"DATABASE_URL", "=", "postgres">>,
                   <<"DATABASE_URL", "=", "https://db.example.com">>,
                   <<"NEXTAUTH_URL", "=", "http://app.io">>,
                   <<"SITE", "=", "http://app.io">>,
                   <<"ADMIN", "=", "a@b.co">>,
                   <<"KEY", "=">> \o Token("API_KEY"),
                   <<"URL", "=">> \o Token("BASE_URL"),
                   <<"name", "=">> \o Token("name") }
    IN  IF n = 0 THEN {<<>>}
        ELSE LET shorter == Texts(n - 1)
             IN  shorter \cup
                 {IF p[1] = <<>> THEN p[2] ELSE p[1] \o <<NL>> \o p[2] :
                     p \in shorter \X lines}

\* The constructor (lines 50-53) on what extract is given: trees of several
\* depths, texts of several lines, and the path arguments with and without a
\* package.json.
ExtractInit ==
    /\ \E project \in {DefaultProject, [absolute |-> FALSE, parts |-> <<"proj">>]} :
       \E output \in {DefaultOutput, [absolute |-> FALSE, parts |-> <<"..", "realms", "out">>],
                      [absolute |-> TRUE, parts |-> <<"out">>]} :
          /\ extractor = [projectPath |-> resolve(project),
                          outputPath |-> resolve(output)]
          /\ \/ /\ project = DefaultProject /\ output = DefaultOutput
                /\ packageJson = WithNext
                /\ \/ \E depth \in 0..MaxDepth :
                         projectFiles = descriptor(WithNext) \o Chain(depth)
                   \/ \E text \in Texts(MaxLines) :
                         projectFiles =
                             Append(descriptor(WithNext),
                                    Entry(<<".env.example">>, "file", text))
             \/ /\ packageJson \in
                      {NoPackageJson, WithNext,
                       [exists |-> TRUE,
                        dependencies |-> <<Dep("stripe", "1.0.0")>>,
                        devDependencies |-> <<Dep("prisma", "1.0.0")>>]}
                /\ projectFiles = descriptor(packageJson) \o FeatureTree
    /\ extraction = [NotExtracted EXCEPT !.stage = "Constructed"]
    /\ analysis = NotAnalysed
    /\ config = ScenarioConfig
    /\ manifest = ScenarioManifest
    /\ realmFiles = ScenarioRealm
    /\ disk = NoDisk
    /\ state = "Pending"
    /\ started = <<>>
    /\ error = NoError
    /\ stepIdx = 1
    /\ ranCommands = <<>>
    /\ child = ""
    /\ handled = <<>>
    /\ runNo = 1
    /\ left = NothingLeft
    /\ diskAtStart = NoDisk
    /\ other = NotCalled(0)
    /\ command = NoCommand
    /\ template = <<>>
    /\ outputs = <<>>

\* What extract() does not touch.
creatorVars ==
    <<config, manifest, realmFiles, disk, state, started, error, stepIdx,
      ranCommands, child, handled, runNo, left, diskAtStart, other, command,
      template, outputs>>

\* extract() from the return of analyzeProject to the return of
\* extractTemplates (lines 59-63, 235-261): the features, and the important
\* files that exist, each with its content transformed, in the list's order.
extractTemplates ==
    /\ extraction.stage = "Constructed"
    /\ analysis.done /\ analysis.error = ""
    /\ extraction' =
          [extraction EXCEPT
              !.stage = "Templated",
              !.features = detectFeatures(Spread(packageJson.dependencies,
                                                 packageJson.devDependencies),
                                          analysis.structure),
              !.templates =
                  LET present == SelectSeq(importantFiles,
                                           LAMBDA file : existsIn(projectFiles, file))
                      content(file) ==
                          projectFiles[CHOOSE i \in 1..Len(projectFiles) :
                                          projectFiles[i].path = file].content
                  IN  [i \in 1..Len(present) |->
                          [filename |-> present[i],
                           content |-> applyTemplateTransformations(
                                           content(present[i]))]]]
    /\ UNCHANGED <<creatorVars, packageJson, analysis, extractor, projectFiles>>

\* extract() from there to its end (lines 65-81): the variables, the manifest
\* and saveExtractionResults, any call of which may throw.
saveExtractionResults ==
    /\ extraction.stage = "Templated"
    /\ LET variables == identifyVariables(extraction.templates)
           calls == saveCalls(extractor, extraction.templates)
       IN  \E n \in 0..Len(calls) :
              extraction' =
                  [extraction EXCEPT
                      !.stage = IF n = Len(calls) THEN "Returned" ELSE "Failed",
                      !.variables = variables,
                      !.created = made(extractor, projectFiles, calls, n),
                      !.returned = (n = Len(calls))]
    /\ UNCHANGED <<creatorVars, packageJson, analysis, extractor, projectFiles>>

DetectInit ==
    /\ config = ScenarioConfig
    /\ manifest = ScenarioManifest
    /\ realmFiles = ScenarioRealm
    /\ disk = NoDisk
    /\ state = "Pending"
    /\ started = <<>>
    /\ error = NoError
    /\ stepIdx = 1
    /\ ranCommands = <<>>
    /\ child = ""
    /\ handled = <<>>
    /\ runNo = 1
    /\ left = NothingLeft
    /\ diskAtStart = NoDisk
    /\ other = NotCalled(0)
    /\ command = NoCommand
    /\ packageJson \in PackageJsons
    /\ extractor = NoExtractor
    /\ projectFiles = descriptor(packageJson)
    /\ extraction = NotExtracted
    /\ analysis = NotAnalysed
    /\ template = <<>>
    /\ outputs = <<>>

\* The check of lines 87-89 dropped.
notFoundNever(p) == FALSE

\* !fs.existsSync(packageJsonPath) (line 87).
notFound(p) == ~p.exists

\* realm-extractor.ts lines 84-119: without a package.json it throws, else the
\* two dependency objects are merged, the framework is looked up and the
\* structure is read.
analyzeProject ==
    /\ ~analysis.done
    /\ analysis' =
          IF notFound(packageJson)
          THEN [done |-> TRUE, error |-> "package.json not found", framework |-> "",
                structure |-> <<>>]
          ELSE [done |-> TRUE, error |-> "",
                framework |-> detectFramework(Spread(packageJson.dependencies,
                                                     packageJson.devDependencies)),
                structure |-> analyzeStructure(projectFiles, <<>>)]
    /\ UNCHANGED <<creatorVars, packageJson, extractor, projectFiles, extraction>>

DetectNext == analyzeProject

SpecDetect == DetectInit /\ [][DetectNext]_vars

ExtractNext == analyzeProject \/ extractTemplates \/ saveExtractionResults

SpecExtract == ExtractInit /\ [][ExtractNext]_vars

\* ------------------------------------------------------------------ claims

Last(s) == s[Len(s)]

IsPrefix(s, t) == Len(s) <= Len(t) /\ s = SubSeq(t, 1, Len(s))

ValidationFailed == state = "Failed" /\ started # <<>> /\ Last(started) = "validateConfig"

\* The order of the stages as the claim gives it.
StageOrder ==
    <<"validateConfig", "createProjectDirectory", "processTemplates", "runSetupSteps",
      "createProjectTracking">>

StateOrder == <<"Validating", "Scaffolding", "Templating", "SettingUp", "Tracking">>

Running(s) == \E k \in 1..Len(StateOrder) : StateOrder[k] = s

StateIndex(s) == CHOOSE k \in 1..Len(StateOrder) : StateOrder[k] = s

C1_Stages ==
    /\ IsPrefix(started, StageOrder)
    /\ Running(state) => Len(started) \in {StateIndex(state) - 1, StateIndex(state)}
    /\ state = "Pending" => started = <<>>
    /\ state = "Failed" => started # <<>>
    /\ state = "Done" =>
          /\ started = StageOrder
          /\ disk.origin.written
          /\ disk.origin.createdAt = runNo

C1_Step ==
    /\ state \in {"Failed", "Done"} =>
          \/ state' = state /\ started' = started /\ disk' = disk
          \/ state' = "Pending" /\ runNo' = runNo + 1
    /\ state = "Pending" => state' \in {"Pending", "Validating"}
    /\ Running(state) /\ state' # state =>
          \/ state' = "Failed"
          \/ /\ StateIndex(state) < Len(StateOrder)
             /\ state' = StateOrder[StateIndex(state) + 1]
             /\ Last(started') = StageOrder[StateIndex(state)]
          \/ /\ StateIndex(state) = Len(StateOrder)
             /\ state' = "Done"

\* C1: a run of create() goes Pending, Validating, Scaffolding, Templating,
\* SettingUp, Tracking, Done; validateConfig, createProjectDirectory,
\* processTemplates, runSetupSteps and createProjectTracking start in that
\* order, each at most once; a failure moves the run to Failed, after which no
\* stage of the run starts; Done is reached only with the tracking written.
C1_StateMachine == [](C1_Stages) /\ [][C1_Step]_vars

C1_Witness == state = "Done" /\ started = StageOrder /\ ranCommands # <<>>

\* The names the claim counts: the required variables without a binding and
\* the enabled ids that no feature declares.
OffendingItems ==
    {<<missingVars(config, manifest)[i].name>> : i \in 1..Len(missingVars(config, manifest))}
        \cup {invalidFeatures(config, manifest)[i] :
                 i \in 1..Len(invalidFeatures(config, manifest))}

\* C2: when validation fails with the output path absent, the failure names
\* every missing required variable and every undeclared feature id of the
\* selection, all N + M of them.
C2_Exhaustive ==
    (ValidationFailed /\ ~diskAtStart.exists) =>
        {error.items[i] : i \in 1..Len(error.items)} = OffendingItems

Declares(id) == \E i \in 1..Len(manifest.features) : manifest.features[i].id = id

\* C3: with the output path absent, validation accepts when every required
\* variable has a binding or a default and every enabled id is declared.
C3_AcceptsDefaults ==
    ( /\ ~diskAtStart.exists
      /\ \A i \in 1..Len(manifest.variables) :
            manifest.variables[i].required =>
                \/ HasKey(config.variables, manifest.variables[i].name)
                \/ manifest.variables[i].defaultValue.t # "undefined"
      /\ \A i \in 1..Len(config.enabledFeatures) : Declares(config.enabledFeatures[i]) )
    => ~ValidationFailed

\* C4: when a feature the manifest marks required is not in the selection,
\* validation fails and the run never reaches Scaffolding.
C4_RequiredFeature ==
    (\E i \in 1..Len(manifest.features) :
        /\ manifest.features[i].required
        /\ ~ArrIncludes(config.enabledFeatures, manifest.features[i].id))
    => state \in {"Pending", "Validating", "Failed"} /\ (state = "Failed" => ValidationFailed)

\* C5: a create() into an output path that exists when it is called fails in
\* validation with "Directory already exists" and leaves everything at the
\* output path as it was.
C5_SecondRunRefused ==
    (runNo >= 2 /\ state # "Pending" /\ diskAtStart.exists) =>
        /\ state \in {"Validating", "Failed"}
        /\ state = "Failed" =>
              ValidationFailed /\ error.kind = "Directory already exists"
        /\ disk = diskAtStart

C5_Witness ==
    /\ runNo = 2
    /\ ValidationFailed
    /\ error.kind = "Directory already exists"
    /\ disk.origin.written
    /\ disk.files # <<>>

\* C6: a run that failed in validation has created or changed nothing at the
\* output path, has run no setup command and has written no provenance record.
C6_NoPartialWork ==
    ValidationFailed =>
        /\ disk = diskAtStart
        /\ disk.origin = diskAtStart.origin
        /\ ranCommands = <<>>
    /\ child = ""
    /\ handled = <<>>

C6_Witness ==
    /\ ValidationFailed
    /\ error.kind \in {"Missing required variables", "Invalid features"}
    /\ realmFiles = RealmWithTemplates

\* The string the claim puts in place of the token of `name`: the binding's,
\* else the default's, else none.
Resolved(name, variables, declared) ==
    IF HasKey(variables, name)
    THEN <<StringOf(variables[CHOOSE i \in 1..Len(variables) : variables[i].name = name].value)>>
    ELSE IF \E i \in 1..Len(declared) :
                declared[i].name = name /\ declared[i].defaultValue.t # "undefined"
    THEN <<StringOf(declared[CHOOSE i \in 1..Len(declared) : declared[i].name = name].defaultValue)>>
    ELSE <<>>

\* The content with every token of a declared variable that has a binding or a
\* default replaced by that string, as it stands, and everything else kept.
RECURSIVE SubstitutedOnce(_, _, _, _)
SubstitutedOnce(c, i, variables, declared) ==
    IF i > Len(c) THEN <<>>
    ELSE IF \E k \in 1..Len(declared) :
                /\ MatchesAt(c, i, Token(declared[k].name))
                /\ Resolved(declared[k].name, variables, declared) # <<>>
    THEN LET k == CHOOSE x \in 1..Len(declared) : MatchesAt(c, i, Token(declared[x].name))
         IN  Resolved(declared[k].name, variables, declared)[1]
                 \o SubstitutedOnce(c, i + Len(Token(declared[k].name)), variables, declared)
    ELSE <<c[i]>> \o SubstitutedOnce(c, i + 1, variables, declared)

\* C7: in the substituted content every token of a bound variable stands
\* replaced by the string form of its value, every token of an unbound variable
\* with a default by the string form of the default, and a token with neither
\* is left as it was.
C7_Substitution ==
    Len(outputs) >= 1 =>
        outputs[1] = SubstitutedOnce(template, 1, config.variables, manifest.variables)

\* No value or default holds the token of a declared or bound variable.
NoTokenInValues ==
    LET names == {manifest.variables[i].name : i \in 1..Len(manifest.variables)}
                     \cup {config.variables[i].name : i \in 1..Len(config.variables)}
        texts == {StringOf(config.variables[i].value) : i \in 1..Len(config.variables)}
                     \cup {StringOf(manifest.variables[i].defaultValue) :
                              i \in {x \in 1..Len(manifest.variables) :
                                        manifest.variables[x].defaultValue.t # "undefined"}}
    IN  \A text \in texts : \A name \in names : ~Includes(text, Token(name))

\* C8: when no value or default holds the token of a declared or bound
\* variable, substituting the substituted content again changes nothing.
C8_Idempotent ==
    (Len(outputs) = 2 /\ NoTokenInValues) => outputs[2] = outputs[1]

\* The files a run may put below the output path: the asset files and the
\* template files, by output path.
Candidates == assetFiles(realmFiles, 1) \o templateFiles(realmFiles)

\* C9: after Done a file whose path lies under a gated directory of a disabled
\* feature is absent from the output, whether it is a template or an asset, and
\* a file under no gated directory of a disabled feature and without a marker
\* is present.
C9_FeatureExclusion ==
    state = "Done" =>
        \A k \in 1..Len(Candidates) :
            /\ ~passesDirectoryCheck(Candidates[k].path, config.enabledFeatures) =>
                  ~HasFile(disk.files, Candidates[k].path)
            /\ ( /\ passesDirectoryCheck(Candidates[k].path, config.enabledFeatures)
                 /\ flagMatch(Candidates[k].content) = 0 ) =>
                  HasFile(disk.files, Candidates[k].path)

\* The run wrote the template: its substituted content is at its path.
Written(t) ==
    /\ HasFile(disk.files, t.path)
    /\ ContentOf(disk.files, t.path) =
           applyVariableSubstitution(t.content, config.variables, manifest.variables)

\* C10: after Done a template that carries an annotation is written only if
\* every id the annotation names is enabled, and a template is written exactly
\* when its path passes the directory check and its content the marker check.
C10_MarkerPolicy ==
    state = "Done" =>
        \A k \in 1..Len(templateFiles(realmFiles)) :
            LET t == templateFiles(realmFiles)[k]
            IN  /\ (flagMatch(t.content) # 0 /\ Written(t)) =>
                      \A n \in 1..Len(requiredFeatures(t.content)) :
                          ArrIncludes(config.enabledFeatures, requiredFeatures(t.content)[n])
                /\ Written(t) <=>
                      /\ passesDirectoryCheck(t.path, config.enabledFeatures)
                      /\ passesFlagCheck(t.content, config.enabledFeatures)

\* C11: in the scenario (PROJECT_NAME required and bound to acme, BASE_URL
\* optional with default http://localhost:3000 and unbound, auth enabled,
\* payments disabled, no setup step) a run of create() on a fresh output
\* path fails only when the file system fails, and once it is Done the
\* output holds config.txt = "name=acme url=http://localhost:3000" and no
\* billing/plan.txt.
InScenario ==
    /\ config = ScenarioConfig
    /\ manifest = ScenarioManifest
    /\ realmFiles = ScenarioRealm

C11_Scenario ==
    InScenario =>
        /\ state = "Failed" /\ diskAtStart = NoDisk => error.kind = "IOFailure"
        /\ state = "Done" =>
               /\ HasFile(disk.files, <<"config.txt">>)
               /\ ContentOf(disk.files, <<"config.txt">>) =
                      <<"name", "=", "acme", Space, "url", "=", "http://localhost:3000">>
               /\ ~HasFile(disk.files, <<"billing", "/", "plan.txt">>)

C11_Witness == InScenario /\ state = "Done" /\ disk.origin.written
\* C12: runSetupSteps handles the steps in manifest order, one at a time.
\* handled[i] is how step i ended, so no step is handled twice and none out
\* of order; the commands given to execSync are those of the steps that ran,
\* in manifest order; while a command runs it is the command of the step
\* under examination, and until it has ended no step is examined and no
\* other command starts.
Ran(outcome) == outcome \in {"completed", "tolerated", "failed"}

Ended(outcome) == outcome \in {"refused", "failed"}

\* The commands of the steps 1..n that ran, in manifest order.
RECURSIVE CommandsRun(_)
CommandsRun(n) ==
    IF n = 0 THEN <<>>
    ELSE IF Ran(handled[n])
         THEN Append(CommandsRun(n - 1), manifest.setup_steps[n].command)
    ELSE CommandsRun(n - 1)

C12_Order ==
    /\ Len(handled) <= Len(manifest.setup_steps)
    /\ \A i \in 1..Len(handled) : Ended(handled[i]) => i = Len(handled) /\ state = "Failed"
    /\ stepIdx = Len(handled) + (IF handled # <<>> /\ Ended(Last(handled)) THEN 0 ELSE 1)
    /\ ranCommands = CommandsRun(Len(handled)) \o (IF child = "" THEN <<>> ELSE <<child>>)
    /\ child # "" =>
          /\ state = "SettingUp"
          /\ stepIdx <= Len(manifest.setup_steps)
          /\ child = manifest.setup_steps[stepIdx].command

C12_Pass ==
    /\ child # "" =>
          /\ ranCommands' = ranCommands
          /\ handled' # handled => child' = "" /\ Ran(Last(handled'))
          /\ child' # "" => child' = child /\ stepIdx' = stepIdx /\ handled' = handled
    /\ handled' # <<>> =>
          /\ Len(handled') \in {Len(handled), Len(handled) + 1}
          /\ IsPrefix(handled, handled')
    /\ child = "" /\ child' # "" =>
          /\ handled' = handled
          /\ ranCommands' = Append(ranCommands, child')

C12_InOrder == [](C12_Order) /\ [][C12_Pass]_vars

C12_Witness ==
    /\ Len(handled) = 2
    /\ handled[1] = "completed"
    /\ child = ""
    /\ Len(ranCommands) = 2
\* C13: with the bindings being the caller's values filled with the defaults
\* of the declared variables the caller omitted, a step with a requires list
\* runs its command exactly when every named variable is bound; otherwise it
\* is skipped when optional and ends the run as Failed when not.
Bound(name) == Resolved(name, config.variables, manifest.variables) # <<>>

AllBound(step) == \A k \in 1..Len(step.requires) : Bound(step.requires[k])

C13_Requires ==
    \A i \in 1..Len(handled) :
        LET step == manifest.setup_steps[i]
        IN  step.requires # <<>> =>
                /\ AllBound(step) => handled[i] \notin {"skipped", "refused"}
                /\ ~AllBound(step) =>
                       handled[i] = IF step.optional THEN "skipped" ELSE "refused"
                /\ handled[i] = "refused" => state = "Failed" /\ i = Len(handled)
\* C14: the failure of a step's command is tolerated when the step is
\* optional, and the loop goes on to the following step; it is fatal
\* otherwise: the run is Failed with that step the last one handled, no
\* command started after it and no provenance record written.
C14_Outcome ==
    \A i \in 1..Len(handled) :
        /\ handled[i] = "tolerated" => manifest.setup_steps[i].optional
        /\ handled[i] = "failed" =>
              /\ ~manifest.setup_steps[i].optional
              /\ state = "Failed"
              /\ error.kind = "Setup step failed"
              /\ i = Len(handled)
              /\ Last(ranCommands) = manifest.setup_steps[i].command
              /\ child = ""
              /\ ~disk.origin.written

C14_Continue ==
    /\ handled' = Append(handled, "tolerated") =>
          state' = "SettingUp" /\ stepIdx' = stepIdx + 1 /\ error' = NoError
    /\ handled' = Append(handled, "failed") => state' = "Failed"
    /\ state = "Failed" /\ handled # <<>> /\ Last(handled) = "failed" =>
          \/ UNCHANGED <<disk, ranCommands, handled, state>>
          \/ state' = "Pending"

C14_CommandFailure == [](C14_Outcome) /\ [][C14_Continue]_vars

\* A run that tolerated a failure, ran the following step and is Done.
C14_Witness ==
    /\ state = "Done"
    /\ Len(handled) = 3
    /\ handled[2] = "tolerated"
    /\ handled[3] = "completed"
    /\ disk.origin.written

\* C15 as stated: after a run that failed in createProjectDirectory,
\* processTemplates, runSetupSteps or createProjectTracking, what the run
\* left under the output path stays as it is, and until the caller removes
\* the output path every later run fails in validation.
WritingStages ==
    {"createProjectDirectory", "processTemplates", "runSetupSteps", "createProjectTracking"}

RefusedAsExisting ==
    \/ state \in {"Pending", "Validating"}
    \/ ValidationFailed /\ error.kind = "Directory already exists"

C15_NoResume ==
    left.by \in WritingStages => disk = left.disk /\ RefusedAsExisting

\* C15 for the failures that come after mkdirSync has made the output
\* directory: what the run left stays as it is, and until the caller removes
\* the output path every later run fails in validation.
C15_NoResumeOnceMade ==
    left.by \in WritingStages /\ left.disk.exists =>
        disk = left.disk /\ RefusedAsExisting

\* A partial output of a run that failed in processTemplates, and the next
\* run refused.
C15_Witness ==
    /\ left.by = "processTemplates"
    /\ left.disk.files # <<>>
    /\ ~left.disk.origin.written
    /\ ValidationFailed
\* C16: a run of create() leaves the realm as it was: the manifest, and the
\* files and directories under the realm's templates directory, whatever the
\* output path that passed validation.
InTemplates(path) == path = templatesPath \/ Under(templatesPath, path)

\* The directories under the realm directory that hold a file of `files`.
RealmDirs(files) == UNION {DirsOf(files[i].path) : i \in 1..Len(files)}

\* The templates directory of the realm before any run.
TemplatesBefore ==
    [dirs |-> {d \in RealmDirs(realmFiles) : InTemplates(d)},
     files |-> {realmFiles[i] : i \in {x \in 1..Len(realmFiles) :
                                          InTemplates(realmFiles[x].path)}}]

\* The output path relative to the realm directory, when it lies inside.
Place == Relative(config.realmPath, config.outputPath)

\* The templates directory of the realm now: what it held before, and what is
\* at the output path when that lies inside it.
TemplatesNow ==
    IF Under(config.realmPath, config.outputPath) /\ InTemplates(Place) /\ disk.exists
    THEN [dirs |-> TemplatesBefore.dirs \cup DirsOf(Place) \cup {Place}
                      \cup {Place \o <<"/">> \o d : d \in disk.dirs},
          files |-> TemplatesBefore.files
                      \cup {File(Place \o <<"/">> \o disk.files[i].path, disk.files[i].content) :
                               i \in 1..Len(disk.files)}]
    ELSE TemplatesBefore

C16_RealmUnchanged ==
    /\ [](TemplatesNow = TemplatesBefore)
    /\ [][manifest' = manifest /\ realmFiles' = realmFiles]_vars
\* C17: of two runs of create() on the same output path at the same time, at
\* most one passes validation and goes on to createProjectDirectory.
PassedValidation(st, stages) ==
    \/ st \in {"Scaffolding", "Templating", "SettingUp", "Tracking", "Done"}
    \/ st = "Failed" /\ Len(stages) > 1

C17_AtMostOneWrites ==
    ~(PassedValidation(state, started) /\ PassedValidation(other.state, other.started))
\* C18: once a run is Done the provenance record holds the realm's slug and
\* version, the realm's location, the enabled features, and the resolved
\* variables: every name and value that substitution applied, the caller's
\* bindings and the defaults of the declared variables the caller left out.
Pairs(variables) == {<<variables[i].name, variables[i].value>> : i \in 1..Len(variables)}

AppliedDefaults ==
    {<<manifest.variables[i].name, manifest.variables[i].defaultValue>> :
        i \in {x \in 1..Len(manifest.variables) :
                  /\ ~HasKey(config.variables, manifest.variables[x].name)
                  /\ manifest.variables[x].defaultValue # Undefined}}

C18_Provenance ==
    state = "Done" =>
        /\ disk.origin.written
        /\ disk.origin.realmSlug = manifest.slug
        /\ disk.origin.realmVersion = manifest.version
        /\ disk.origin.realmPath = config.realmPath
        /\ disk.origin.enabledFeatures = config.enabledFeatures
        /\ Pairs(disk.origin.variables) = Pairs(config.variables) \cup AppliedDefaults
\* C19: realmkit create with a local realm that holds a valid manifest, a
\* project directory that does not exist yet and bindings that satisfy the
\* manifest does not end in the failure exit because the Materializer refused
\* the run: unless the file system fails, create() reaches Done.
C19_CommandRunsToDone ==
    command.at = "Exit1" /\ state = "Failed" => error.kind = "IOFailure"
\* C20: the framework is the first of next, react, vue, express that is a key
\* of dependencies or devDependencies (nextjs for next), unknown when none
\* is; only the set of keys counts, not their order.
PresentKeys ==
    {packageJson.dependencies[i].name : i \in 1..Len(packageJson.dependencies)}
        \cup {packageJson.devDependencies[i].name : i \in 1..Len(packageJson.devDependencies)}

FirstMatch(keys) ==
    IF "next" \in keys THEN "nextjs"
    ELSE IF "react" \in keys THEN "react"
    ELSE IF "vue" \in keys THEN "vue"
    ELSE IF "express" \in keys THEN "express"
    ELSE "unknown"

C20_FrameworkPriority ==
    analysis.done /\ analysis.error = "" => analysis.framework = FirstMatch(PresentKeys)
\* C27: the directory rule is a prefix rule.  After Done a template whose
\* path begins with no directory string of a disabled feature, and whose
\* substituted content passes the marker check, has been written, even when
\* its path holds such a string further in (oauth/cb, src/auth/guard).
FallsUnder(path, enabledFeatures) ==
    \E k \in 1..Len(featureDirectories) :
        /\ ~ArrIncludes(enabledFeatures, featureDirectories[k].id)
        /\ \E dir \in featureDirectories[k].dirs : StartsWith(path, dir)

C27_PrefixRule ==
    state = "Done" =>
        \A k \in 1..Len(templateFiles(realmFiles)) :
            LET t == templateFiles(realmFiles)[k]
                processedContent ==
                    applyVariableSubstitution(t.content, config.variables, manifest.variables)
            IN  ( /\ ~FallsUnder(t.path, config.enabledFeatures)
                  /\ passesFlagCheck(processedContent, config.enabledFeatures) )
                    => Written(t)
\* C28: which files a run writes depends on the realm and the enabled
\* features only.  The paths in the output of a Done run are those that a run
\* over the same realm with the same features and any other bindings and
\* defaults that pass validation puts there.
PathsOf(files) == {files[i].path : i \in 1..Len(files)}

\* The paths below the output path after the scaffolding and the templating
\* of a run with config cfg and manifest man, the file system never failing.
PathsWritten(cfg, man) ==
    LET assets == assetFiles(realmFiles, 1)
        templates == templateFiles(realmFiles)
        scaffolded == copyDirectory([NoDisk EXCEPT !.exists = TRUE], assets, Len(assets))
    IN  PathsOf(processTemplateDirectory(scaffolded, templates, Len(templates),
                                         cfg, man).files)

C28_BindingsDoNotGate ==
    state = "Done" =>
        \A otherVariables \in VariableObjects :
            \A otherDeclared \in VariableDeclarations :
                LET cfg == [config EXCEPT !.variables = otherVariables]
                    man == [manifest EXCEPT !.variables = otherDeclared]
                IN  validationError(cfg, man, NoDisk) = NoError =>
                        PathsOf(disk.files) \ {p \in PathsOf(disk.files) : p[1] = ".realmkit"}
                            = PathsWritten(cfg, man)
\* C29: the substituted content is the same for the bindings in the reverse
\* insertion order, and no text that a value or default put in is replaced
\* in its turn: when no value holds a "$", the content is the template with
\* each token replaced once.
Reverse(seq) == [i \in 1..Len(seq) |-> seq[Len(seq) + 1 - i]]

NoDollarInValues ==
    \A i \in 1..Len(config.variables) :
        ~Includes(StringOf(config.variables[i].value), <<"$">>)

C29_OrderAndOnce ==
    Len(outputs) >= 1 =>
        /\ applyVariableSubstitution(template, Reverse(config.variables),
                                     manifest.variables) = outputs[1]
        /\ NoDollarInValues =>
              outputs[1] = SubstitutedOnce(template, 1, config.variables,
                                           manifest.variables)
\* C24: a template that holds the token of a name the manifest does not
\* declare is reported: a run over a realm with such a template does not get
\* to Done, and the template is not written.
IsTokenAt(c, i) ==
    /\ i + 4 <= Len(c)
    /\ c[i] = "{" /\ c[i + 1] = "{" /\ c[i + 3] = "}" /\ c[i + 4] = "}"
    /\ IsWordCommaSpace(c[i + 2]) /\ c[i + 2] \notin {Space, Comma}

TokenNames(c) == {c[i + 2] : i \in {x \in 1..Len(c) : IsTokenAt(c, x)}}

Dangling(t) ==
    \E name \in TokenNames(t.content) :
        \A i \in 1..Len(manifest.variables) : manifest.variables[i].name # name

C24_DanglingReported ==
    \A k \in 1..Len(templateFiles(realmFiles)) :
        LET t == templateFiles(realmFiles)[k]
        IN  Dangling(t) => state # "Done" /\ ~Written(t)
\* C30: with the manifest generateRealmManifest emits for the six detected
\* features and a configuration enabling all of them, the directory check
\* passes every template and after Done every template is in the output.
Extracted == manifest = ExtractedManifest /\ config = ExtractedConfig

C30_IdsAgree ==
    Extracted /\ state = "Done" =>
        \A k \in 1..Len(templateFiles(realmFiles)) :
            LET t == templateFiles(realmFiles)[k]
            IN  /\ passesDirectoryCheck(t.path, config.enabledFeatures)
                /\ Written(t)
\* C21: every node analyzeStructure emits has a path of at most 4
\* components, and no node lies in a directory 4 or more levels below the
\* project root.
Listed(dir) ==
    \E i \in 1..Len(analysis.structure) :
        LET path == analysis.structure[i].path
        IN  Len(path) = Len(dir) + 1 /\ StartsWith(path, dir)

C21_DepthBound ==
    /\ \A i \in 1..Len(analysis.structure) : Len(analysis.structure[i].path) <= 4
    /\ \A i \in 1..Len(projectFiles) :
           projectFiles[i].type = "directory" /\ Len(projectFiles[i].path) >= 4
               => ~Listed(projectFiles[i].path)
\* C22: in every template extractTemplates produced, each assignment to one
\* of the five environment keys reads KEY={{KEY}} up to the end of its line
\* and each name or description field holds its own placeholder, so no part
\* of them is a {{BASE_URL}} or {{CONTACT_EMAIL}} token or is left as it was.
AssignmentKeys ==
    {"DATABASE_URL", "NEXTAUTH_SECRET", "NEXTAUTH_URL", "STRIPE_SECRET_KEY",
     "RESEND_API_KEY"}

FieldPlaceholders ==
    {<<"name", "PROJECT_NAME">>, <<"description", "PROJECT_DESCRIPTION">>}

AssignmentRewritten(out, i, key) ==
    /\ MatchesAt(out, i + 2, Token(key))
    /\ i + 7 <= Len(out) => out[i + 7] = NL

FieldRewritten(out, i, placeholder) ==
    LET open == SkipWhitespace(out, i + 4)
    IN  MatchesAt(out, open + 1, Token(placeholder) \o <<Quote>>)

C22_SpecificWins ==
    \A f \in 1..Len(extraction.templates) :
        LET out == extraction.templates[f].content
        IN  \A i \in 1..Len(out) :
                /\ \A key \in AssignmentKeys :
                      AssignEnd(out, i, key) > 0 => AssignmentRewritten(out, i, key)
                /\ \A p \in FieldPlaceholders :
                      FieldEnd(out, i, p[1]) > 0 => FieldRewritten(out, i, p[2])
\* C23: once identifyVariables has run, the names of the variables are the
\* {{TOKEN}}s of the templates, each once, ordered by where each is first seen,
\* and a variable whose name the table does not have is an optional string
\* described by its lower-cased name.
Identified == extraction.stage \in {"Returned", "Failed"}

TokensAt(content) ==
    {i \in 1..Len(content) :
        /\ MatchesAt(content, i, <<"{", "{">>)
        /\ MatchesAt(content, i + 3, <<"}", "}">>)
        /\ IsVarName(content[i + 2])}

Occurrences(name) ==
    UNION {{<<f, i>> : i \in {j \in TokensAt(extraction.templates[f].content) :
                                extraction.templates[f].content[j + 2] = name}} :
              f \in 1..Len(extraction.templates)}

Before(p, q) == p[1] < q[1] \/ (p[1] = q[1] /\ p[2] < q[2])

FirstSeen(name) ==
    CHOOSE p \in Occurrences(name) : \A q \in Occurrences(name) : p = q \/ Before(p, q)

NamesIdentified == {extraction.variables[i].name : i \in 1..Len(extraction.variables)}

C23_OnePerToken ==
    Identified =>
        /\ \A name \in NamesIdentified : Occurrences(name) # {}
        /\ \A f \in 1..Len(extraction.templates) :
              \A i \in TokensAt(extraction.templates[f].content) :
                  extraction.templates[f].content[i + 2] \in NamesIdentified
        /\ \A i, j \in 1..Len(extraction.variables) :
              i < j => /\ extraction.variables[i].name # extraction.variables[j].name
                       /\ Before(FirstSeen(extraction.variables[i].name),
                                 FirstSeen(extraction.variables[j].name))
        /\ \A i \in 1..Len(extraction.variables) :
              LET variable == extraction.variables[i]
              IN  (\A k \in 1..Len(WellKnown) : WellKnown[k] # variable.name) =>
                      /\ variable.required = FALSE
                      /\ variable.type = "string"
                      /\ variable.description =
                             toLowerCase(variable.name) \o <<Space, "configuration">>

\* A token is in two templates and another one is not in the table.
C23_Witness ==
    /\ extraction.stage = "Returned"
    /\ \E name \in NamesIdentified : \E p, q \in Occurrences(name) : p[1] # q[1]
    /\ \E name \in NamesIdentified : \A k \in 1..Len(WellKnown) : WellKnown[k] # name
\* C25: for a project without a package.json, analyzeProject ends with the
\* error, extract() returns no result and computes no template, and nothing
\* is made or written, the output directory included.
C25_NoPartialResult ==
    ~packageJson.exists =>
        /\ analysis.done => analysis.error = "package.json not found"
        /\ ~extraction.returned
        /\ extraction.templates = <<>> /\ extraction.variables = <<>>
        /\ extraction.created = {}

C25_Witness == ~packageJson.exists /\ analysis.done /\ extractor.outputPath # <<>>

\* C26: nothing extract() makes or writes lies inside the project directory.
C26_SourceReadOnly ==
    \A path \in extraction.created : ~StartsWith(path, extractor.projectPath)
====
